---- MODULE Spec2Model ----
(***************************************************************************)
(* Model of the credit-card tracker's components:                          *)
(*   - the billing cycle calculator of src/app/(tabs)/index.tsx            *)
(*     (calculateDaysRemaining, calculateCreditDays);                      *)
(*   - the message field extractor of src/services/smsReaderService.ts     *)
(*     (extractCardInfoFromSms);                                           *)
(*   - the SMS scan (smsReaderService.ts), the SMS listener                *)
(*     (smsListenerService.ts) and the card form (add-card.tsx), with the  *)
(*     card API calls they make (cardApi of auth.tsx);                     *)
(*   - the home screen's delete dialog (index.tsx), the pending-operation  *)
(*     queue (cardQueue.ts), signIn of the AuthProvider (auth.tsx) and the *)
(*     restart of the SMS listener service by the home screen's effect.    *)
(*                                                                         *)
(* Time.  A JavaScript Date is a number of milliseconds; TLC's integers    *)
(* are 32 bits wide, so the model counts seconds instead.  A Date value is *)
(* the number of seconds since 1970-01-01T00:00 local time, in a zone      *)
(* whose offset never changes (every local day has 24 hours).              *)
(***************************************************************************)
EXTENDS Integers, Sequences, FiniteSets, TLC

VARIABLES
    today,      \* the clock: the local civil time [year, month (0-based), date, secs of the day]
    calc,       \* the last calculator call: its arguments, the dates it resolved, its result
    message,    \* the raw message body handed to extractCardInfoFromSms
    normalizedMsg,  \* its local normalizedMsg, "unset" before the call
    result,     \* the ExtractedCardInfo it returned
    calls,      \* the extractor calls made so far: [message, card, result] each
    extractions,    \* what extractCardInfoFromSms returns for each SMS text of the client
    cards,      \* the card list handed to the scan, or the listener's cachedCards
    scan,       \* scanAndUpdateCards: where it stands, its locals, what it resolved with
    listener,   \* handleSmsReceived: where it stands, its locals
    form,       \* the add/edit form's handleSubmit: where it stands, the cardData it built
    log,        \* the external effects so far: platform calls, card API calls, events
    home,       \* the home screen: its connectivity flag, its delete dialog, deletes in flight
    service,    \* smsListenerService and the native SMS receiver behind it
    store,      \* the device storage: the value under each key
    tasks,      \* the cardQueue calls in flight: where each stands, its locals
    auth        \* the AuthProvider: its token and userData, and signIn under way

\* the variables of the extractor and the calculator
extractVars == <<today, calc, message, normalizedMsg, result, calls, extractions>>

\* the variables of the scan, the listener and the form
clientVars == <<cards, scan, listener, form, log>>

\* the variables of the home screen, the listener service, the storage, the card
\* queue and the AuthProvider
appVars == <<home, service, store, tasks, auth>>

vars == <<today, calc, message, normalizedMsg, result, calls, extractions, cards, scan,
          listener, form, log, home, service, store, tasks, auth>>

(***************************************************************************)
(* Calendar range of the model                                             *)
(***************************************************************************)
\* the <<year, month>> pairs (month 0-based) the reference moments are drawn from:
\* a 31-day month, a leap and a common February, a 30-day month, a December
RefMonths == {<<2024, 0>>, <<2024, 1>>, <<2023, 1>>, <<2024, 3>>, <<2024, 11>>}

\* years a resolved Date may fall in (a roll-over out of December 2024 reaches 2025)
DateYears == 2023 .. 2026

(***************************************************************************)
(* JavaScript Date, in local time                                          *)
(***************************************************************************)
\* index.tsx:85  const oneDayMs = 24 * 60 * 60 * 1000  (here in seconds)
oneDayMs == 24 * 60 * 60

isLeapYear(y) == (y % 4 = 0 /\ y % 100 # 0) \/ y % 400 = 0

\* length of month m (0 = January .. 11 = December) of year y
daysInMonth(y, m) ==
    IF m = 1 THEN (IF isLeapYear(y) THEN 29 ELSE 28)
    ELSE IF m \in {3, 5, 8, 10} THEN 30 ELSE 31

\* days from 1970-01-01 to January 1st of year y
daysBeforeYear(y) ==
    365 * (y - 1970)
      + ((y - 1) \div 4 - 1969 \div 4)
      - ((y - 1) \div 100 - 1969 \div 100)
      + ((y - 1) \div 400 - 1969 \div 400)

\* days from January 1st of year y to the 1st of month m (0-based)
daysBeforeMonth(y, m) ==
    <<0, 31, 59, 90, 120, 151, 181, 212, 243, 273, 304, 334>>[m + 1]
      + (IF m > 1 /\ isLeapYear(y) THEN 1 ELSE 0)

\* new Date(year, month, day): local midnight; a month past 11 carries into the
\* year and a day past the end of the month carries into the following months
MakeDate(year, month, day) ==
    LET y == year + (month \div 12)
        m == month % 12
    IN  (daysBeforeYear(y) + daysBeforeMonth(y, m) + (day - 1)) * oneDayMs

\* Date.prototype.getFullYear
getFullYear(t) ==
    CHOOSE y \in DateYears : MakeDate(y, 0, 1) <= t /\ t < MakeDate(y + 1, 0, 1)

\* Date.prototype.getMonth (0-based)
getMonth(t) ==
    LET y == getFullYear(t)
    IN  CHOOSE m \in 0..11 : MakeDate(y, m, 1) <= t /\ t < MakeDate(y, m + 1, 1)

\* Date.prototype.getDate (day of the month)
getDate(t) ==
    ((t - MakeDate(getFullYear(t), getMonth(t), 1)) \div oneDayMs) + 1

\* Math.floor in the place of Math.ceil
MathFloor(a, b) == a \div b

\* Math.ceil(a / b) for b > 0
MathCeil(a, b) == -((-a) \div b)

\* Math.round(a / b) for b > 0: to the nearest integer, a half rounds up
MathRound(a, b) == (2 * a + b) \div (2 * b)

(***************************************************************************)
(* Decimal strings: a string is a sequence of one-character strings        *)
(***************************************************************************)
Digits == <<"0", "1", "2", "3", "4", "5", "6", "7", "8", "9">>

IsDigit(c) == \E i \in 1..10 : Digits[i] = c

DigitValue(c) == (CHOOSE i \in 1..10 : Digits[i] = c) - 1

\* String(n) for 0 <= n <= 99
NumberToString(n) ==
    IF n < 10 THEN <<Digits[n + 1]>>
    ELSE <<Digits[(n \div 10) + 1], Digits[(n % 10) + 1]>>

\* the result of a failed parse; every number the model parses is >= 0
NaN == 0 - 1

RECURSIVE DigitRun(_, _)
\* value of the longest run of digits that starts s, continuing from acc
DigitRun(s, acc) ==
    IF s = <<>> \/ ~IsDigit(Head(s)) THEN acc
    ELSE DigitRun(Tail(s), 10 * acc + DigitValue(Head(s)))

\* parseInt(s, 10) for an unsigned s: the leading digits, NaN when there is none
parseInt(s) ==
    IF s = <<>> \/ ~IsDigit(Head(s)) THEN NaN ELSE DigitRun(s, 0)

(***************************************************************************)
(* Billing cycle calculator                                                *)
(***************************************************************************)
NoDate == NaN

NoCalc ==
    [op |-> "none", billDate |-> <<>>, dueDate |-> <<>>,
     targetDate |-> NoDate, nextBillDate |-> NoDate, dueDateAfterBill |-> NoDate,
     days |-> 0]

\* calculateDaysRemaining rolling to the next month also when the target date is now
calculateDaysRemainingRollOnEqual(targetDay, now) ==
    LET currentMonth == getMonth(now)
        currentYear  == getFullYear(now)
        candidate    == MakeDate(currentYear, currentMonth, parseInt(targetDay))
        targetDate   == IF candidate <= now
                        THEN MakeDate(currentYear, currentMonth + 1, parseInt(targetDay))
                        ELSE candidate
    IN  [op |-> "daysRemaining", billDate |-> targetDay, dueDate |-> <<>>,
         targetDate |-> targetDate, nextBillDate |-> NoDate, dueDateAfterBill |-> NoDate,
         days |-> MathCeil(targetDate - now, oneDayMs)]

\* calculateDaysRemaining wrapping December to January without the year roll-over
calculateDaysRemainingNoYearCarry(targetDay, now) ==
    LET currentMonth == getMonth(now)
        currentYear  == getFullYear(now)
        candidate    == MakeDate(currentYear, currentMonth, parseInt(targetDay))
        targetDate   == IF candidate < now
                        THEN MakeDate(currentYear, (currentMonth + 1) % 12, parseInt(targetDay))
                        ELSE candidate
    IN  [op |-> "daysRemaining", billDate |-> targetDay, dueDate |-> <<>>,
         targetDate |-> targetDate, nextBillDate |-> NoDate, dueDateAfterBill |-> NoDate,
         days |-> MathCeil(targetDate - now, oneDayMs)]

\* calculateDaysRemaining(targetDay), with `new Date()` = now
calculateDaysRemaining(targetDay, now) ==
    LET currentMonth == getMonth(now)
        currentYear  == getFullYear(now)
        candidate    == MakeDate(currentYear, currentMonth, parseInt(targetDay))
        targetDate   == IF candidate < now
                        THEN MakeDate(currentYear, currentMonth + 1, parseInt(targetDay))
                        ELSE candidate
        diffTime     == targetDate - now
    IN  [NoCalc EXCEPT !.op = "daysRemaining", !.billDate = targetDay,
                       !.targetDate = targetDate,
                       !.days = MathCeil(diffTime, oneDayMs)]

\* the next bill date, rolled only when the bill day is strictly past
nextBillDateStrict(billDay, now) ==
    IF billDay < getDate(now)
    THEN MakeDate(getFullYear(now), getMonth(now) + 1, billDay)
    ELSE MakeDate(getFullYear(now), getMonth(now), billDay)

\* the next bill date of calculateCreditDays
nextBillDateOf(billDay, now) ==
    IF billDay <= getDate(now)
    THEN MakeDate(getFullYear(now), getMonth(now) + 1, billDay)
    ELSE MakeDate(getFullYear(now), getMonth(now), billDay)

\* the due date always taken in the month of the next bill
dueDateSameMonth(billDay, dueDay, nextBillDate) ==
    MakeDate(getFullYear(nextBillDate), getMonth(nextBillDate), dueDay)

\* the due date always taken in the month after the next bill
dueDateNextMonth(billDay, dueDay, nextBillDate) ==
    MakeDate(getFullYear(nextBillDate), getMonth(nextBillDate) + 1, dueDay)

\* the due date after the next bill of calculateCreditDays
dueDateAfterBillOf(billDay, dueDay, nextBillDate) ==
    IF dueDay > billDay
    THEN MakeDate(getFullYear(nextBillDate), getMonth(nextBillDate), dueDay)
    ELSE MakeDate(getFullYear(nextBillDate), getMonth(nextBillDate) + 1, dueDay)

\* calculateCreditDays(billDate, dueDate), with `new Date()` = now
calculateCreditDays(billDate, dueDate, now) ==
    LET billDay          == parseInt(billDate)
        dueDay           == parseInt(dueDate)
        nextBillDate     == nextBillDateOf(billDay, now)
        dueDateAfterBill == dueDateAfterBillOf(billDay, dueDay, nextBillDate)
        diffMs           == dueDateAfterBill - now
    IN  [NoCalc EXCEPT !.op = "creditDays", !.billDate = billDate, !.dueDate = dueDate,
                       !.nextBillDate = nextBillDate,
                       !.dueDateAfterBill = dueDateAfterBill,
                       !.days = MathRound(diffMs, oneDayMs)]

\* the card's billGenerationDate / billDueDate as the screen passes them: 1..31
DayStrings == {NumberToString(n) : n \in 1..31}

\* days of the month the reference moments are drawn from
RefDays == {1, 10, 15, 28, 29, 30, 31}

\* times of day: midnight, just after, noon, the last second
RefTimes == {0, 1, oneDayMs \div 2, oneDayMs - 1}

RefMoments ==
    {r \in [year : {ym[1] : ym \in RefMonths}, month : 0..11, date : RefDays, secs : RefTimes] :
        /\ <<r.year, r.month>> \in RefMonths
        /\ r.date <= daysInMonth(r.year, r.month)}

\* new Date(): the clock's reading as a Date value
DateNow == MakeDate(today.year, today.month, today.date) + today.secs

(***************************************************************************)
(* Strings of the message extractor.  A string is the sequence of its      *)
(* characters; `undefined` (a group that took no part in a match) and the  *)
(* empty string are both the empty sequence: the code only tests them for  *)
(* truthiness.                                                             *)
(***************************************************************************)
UpperCase ==
    <<"A", "B", "C", "D", "E", "F", "G", "H", "I", "J", "K", "L", "M", "N", "O", "P", "Q",
      "R", "S", "T", "U", "V", "W", "X", "Y", "Z">>

LowerCase ==
    <<"a", "b", "c", "d", "e", "f", "g", "h", "i", "j", "k", "l", "m", "n", "o", "p", "q",
      "r", "s", "t", "u", "v", "w", "x", "y", "z">>

\* the characters \s matches
Whitespace == {" ", "\n", "\t"}

\* String.prototype.toLowerCase, one character
toLowerCaseChar(c) ==
    IF \E i \in 1..26 : UpperCase[i] = c
    THEN LowerCase[CHOOSE i \in 1..26 : UpperCase[i] = c]
    ELSE c

\* String.prototype.toLowerCase
toLowerCase(s) == [i \in 1..Len(s) |-> toLowerCaseChar(s[i])]

RECURSIVE collapseWhitespace(_, _)
\* s.replace(/\s+/g, ' '): every run of whitespace becomes one space
collapseWhitespace(s, inRun) ==
    IF s = <<>> THEN <<>>
    ELSE IF Head(s) \in Whitespace
         THEN (IF inRun THEN <<>> ELSE <<" ">>) \o collapseWhitespace(Tail(s), TRUE)
         ELSE <<Head(s)>> \o collapseWhitespace(Tail(s), FALSE)

\* smsReaderService.ts:195  message.toLowerCase().replace(/\s+/g, ' ')
normalize(msg) == collapseWhitespace(toLowerCase(msg), FALSE)

\* s.replace(/,/g, '')
stripCommas(s) == SelectSeq(s, LAMBDA c : c # ",")

\* number of digits s starts with
RECURSIVE leadingDigits(_)
leadingDigits(s) ==
    IF s = <<>> \/ ~IsDigit(Head(s)) THEN 0 ELSE 1 + leadingDigits(Tail(s))

\* parseFloat(s) for an unsigned s without exponent, in hundredths (the strings
\* the amount patterns capture carry at most two fraction digits); NaN when s
\* starts with neither a digit nor a "." followed by a digit
parseFloat(s) ==
    LET n      == leadingDigits(s)
        rest   == SubSeq(s, n + 1, Len(s))
        hasDot == rest # <<>> /\ Head(rest) = "."
        f      == IF hasDot THEN leadingDigits(Tail(rest)) ELSE 0
        whole  == IF n = 0 THEN 0 ELSE DigitRun(s, 0)
        tenths == IF f >= 1 THEN DigitValue(rest[2]) ELSE 0
        hundr  == IF f >= 2 THEN DigitValue(rest[3]) ELSE 0
    IN  IF n = 0 /\ f = 0 THEN NaN ELSE 100 * whole + 10 * tenths + hundr

(***************************************************************************)
(* Regular expressions of extractCardInfoFromSms.  A match is              *)
(* [matched, groups, numberAt, number]: groups[k] is match[k] of the       *)
(* JavaScript match array (k >= 1), number is the text of the pattern's    *)
(* numeric group and numberAt the index where it starts.                   *)
(***************************************************************************)
NoMatch == [matched |-> FALSE, groups |-> <<>>, numberAt |-> 0, number |-> <<>>]

Min(S) == CHOOSE x \in S : \A y \in S : x <= y

\* the literal lit occurs in s at index i
matchesAt(s, i, lit) ==
    /\ i + Len(lit) - 1 <= Len(s)
    /\ lit = <<>> \/ s[i] = lit[1]
    /\ SubSeq(s, i, i + Len(lit) - 1) = lit

\* the indices from i on where s has a digit
digitsFrom(s, i) == {j \in i..Len(s) : IsDigit(s[j])}

\* (\d{1,2}) at index j: one digit, two when the next character is a digit too
dayDigitsAt(s, j) ==
    IF j < Len(s) /\ IsDigit(s[j + 1]) THEN <<s[j], s[j + 1]>> ELSE <<s[j]>>

\* a day pattern  KEY.*?(\d{1,2})(?:st|nd|rd|th)?  where KEY is one of the
\* literals `keys` (its alternation and optional parts written out; each key
\* carries the groups inside KEY, `undefined` for an optional part not taken):
\* the leftmost start at which a key is followed, anywhere later, by a digit;
\* the lazy .*? stops at the first digit and \d{1,2} takes up to two
dayMatch(s, keys) ==
    LET hits == {h \in (1..Len(s)) \X keys :
                    /\ matchesAt(s, h[1], h[2].lit)
                    /\ digitsFrom(s, h[1] + Len(h[2].lit)) # {}}
    IN  IF hits = {} THEN NoMatch
        ELSE LET p == Min({h[1] : h \in hits})
                 k == CHOOSE k \in keys : <<p, k>> \in hits
                 j == Min(digitsFrom(s, p + Len(k.lit)))
             IN  [matched |-> TRUE, groups |-> k.groups \o <<dayDigitsAt(s, j)>>,
                  numberAt |-> j, number |-> dayDigitsAt(s, j)]

\* smsReaderService.ts:200  /bill(ing)? (date|generated).*?(\d{1,2})(?:st|nd|rd|th)?/i
billDatePattern1 ==
    {[lit |-> <<"b", "i", "l", "l", " ", "d", "a", "t", "e">>,
      groups |-> <<<<>>, <<"d", "a", "t", "e">>>>],
     [lit |-> <<"b", "i", "l", "l", " ", "g", "e", "n", "e", "r", "a", "t", "e", "d">>,
      groups |-> <<<<>>, <<"g", "e", "n", "e", "r", "a", "t", "e", "d">>>>],
     [lit |-> <<"b", "i", "l", "l", "i", "n", "g", " ", "d", "a", "t", "e">>,
      groups |-> <<<<"i", "n", "g">>, <<"d", "a", "t", "e">>>>],
     [lit |-> <<"b", "i", "l", "l", "i", "n", "g", " ", "g", "e", "n", "e", "r", "a", "t", "e", "d">>,
      groups |-> <<<<"i", "n", "g">>, <<"g", "e", "n", "e", "r", "a", "t", "e", "d">>>>]}

\* smsReaderService.ts:201  /statement (date|generated).*?(\d{1,2})(?:st|nd|rd|th)?/i
billDatePattern2 ==
    {[lit |-> <<"s", "t", "a", "t", "e", "m", "e", "n", "t", " ", "d", "a", "t", "e">>,
      groups |-> <<<<"d", "a", "t", "e">>>>],
     [lit |-> <<"s", "t", "a", "t", "e", "m", "e", "n", "t", " ", "g", "e", "n", "e", "r", "a", "t", "e", "d">>,
      groups |-> <<<<"g", "e", "n", "e", "r", "a", "t", "e", "d">>>>]}

\* smsReaderService.ts:202  /generated on.*?(\d{1,2})(?:st|nd|rd|th)?/i
billDatePattern3 ==
    {[lit |-> <<"g", "e", "n", "e", "r", "a", "t", "e", "d", " ", "o", "n">>, groups |-> <<>>]}

\* smsReaderService.ts:203  /bill for.*?(\d{1,2})(?:st|nd|rd|th)?/i
billDatePattern4 ==
    {[lit |-> <<"b", "i", "l", "l", " ", "f", "o", "r">>, groups |-> <<>>]}

billDatePatterns == <<billDatePattern1, billDatePattern2, billDatePattern3, billDatePattern4>>

\* smsReaderService.ts:208  /due (date|on).*?(\d{1,2})(?:st|nd|rd|th)?/i
dueDatePattern1 ==
    {[lit |-> <<"d", "u", "e", " ", "d", "a", "t", "e">>, groups |-> <<<<"d", "a", "t", "e">>>>],
     [lit |-> <<"d", "u", "e", " ", "o", "n">>, groups |-> <<<<"o", "n">>>>]}

\* smsReaderService.ts:209  /pay by.*?(\d{1,2})(?:st|nd|rd|th)?/i
dueDatePattern2 ==
    {[lit |-> <<"p", "a", "y", " ", "b", "y">>, groups |-> <<>>]}

\* smsReaderService.ts:210  /payment due.*?(\d{1,2})(?:st|nd|rd|th)?/i
dueDatePattern3 ==
    {[lit |-> <<"p", "a", "y", "m", "e", "n", "t", " ", "d", "u", "e">>, groups |-> <<>>]}

dueDatePatterns == <<dueDatePattern1, dueDatePattern2, dueDatePattern3>>

\* [\$₹€£¥]
CurrencySymbols == {"$", "₹", "€", "£", "¥"}

\* [0-9,]
IsAmountChar(c) == IsDigit(c) \/ c = ","

RECURSIVE skipWhitespace(_, _)
\* \s* from index i: the index of the first character that is not whitespace
skipWhitespace(s, i) ==
    IF i <= Len(s) /\ s[i] \in Whitespace THEN skipWhitespace(s, i + 1) ELSE i

RECURSIVE amountRunEnd(_, _)
\* [0-9,]+ from index i, greedy: the index of the last character it takes
amountRunEnd(s, i) ==
    IF i < Len(s) /\ IsAmountChar(s[i + 1]) THEN amountRunEnd(s, i + 1) ELSE i

\* ([0-9,]+(\.[0-9]{2})?) at index i: <<outer group, inner group>>, or <<>> when
\* s has no digit or comma at i
amountAt(s, i) ==
    IF i > Len(s) \/ ~IsAmountChar(s[i]) THEN <<>>
    ELSE LET e       == amountRunEnd(s, i)
             hasFrac == /\ e + 3 <= Len(s)
                        /\ s[e + 1] = "."
                        /\ IsDigit(s[e + 2])
                        /\ IsDigit(s[e + 3])
         IN  IF hasFrac THEN <<SubSeq(s, i, e + 3), SubSeq(s, e + 1, e + 3)>>
             ELSE <<SubSeq(s, i, e), <<>>>>

\* ([\$₹€£¥])\s*([0-9,]+(\.[0-9]{2})?) matches at index j
symbolAmountAt(s, j) ==
    j <= Len(s) /\ s[j] \in CurrencySymbols /\ amountAt(s, skipWhitespace(s, j + 1)) # <<>>

\* the indices from i on where a currency symbol with its amount starts
symbolAmountsFrom(s, i) == {j \in i..Len(s) : symbolAmountAt(s, j)}

\* a pattern  KEY.*?([\$₹€£¥])\s*([0-9,]+(\.[0-9]{2})?)  with KEY one of `keys`
keyedSymbolAmountMatch(s, keys) ==
    LET hits == {h \in (1..Len(s)) \X keys :
                    /\ matchesAt(s, h[1], h[2].lit)
                    /\ symbolAmountsFrom(s, h[1] + Len(h[2].lit)) # {}}
    IN  IF hits = {} THEN NoMatch
        ELSE LET p == Min({h[1] : h \in hits})
                 k == CHOOSE k \in keys : <<p, k>> \in hits
                 j == Min(symbolAmountsFrom(s, p + Len(k.lit)))
                 a == skipWhitespace(s, j + 1)
             IN  [matched |-> TRUE, groups |-> k.groups \o <<<<s[j]>>>> \o amountAt(s, a),
                  numberAt |-> a, number |-> amountAt(s, a)[1]]

\* smsReaderService.ts:215
\* /total (due|amount|bill|payment).*?([\$₹€£¥])\s*([0-9,]+(\.[0-9]{2})?)/i
amountPattern1(s) ==
    keyedSymbolAmountMatch(s,
        {[lit |-> <<"t", "o", "t", "a", "l", " ", "d", "u", "e">>, groups |-> <<<<"d", "u", "e">>>>],
         [lit |-> <<"t", "o", "t", "a", "l", " ", "a", "m", "o", "u", "n", "t">>,
          groups |-> <<<<"a", "m", "o", "u", "n", "t">>>>],
         [lit |-> <<"t", "o", "t", "a", "l", " ", "b", "i", "l", "l">>,
          groups |-> <<<<"b", "i", "l", "l">>>>],
         [lit |-> <<"t", "o", "t", "a", "l", " ", "p", "a", "y", "m", "e", "n", "t">>,
          groups |-> <<<<"p", "a", "y", "m", "e", "n", "t">>>>]})

\* smsReaderService.ts:216  /amount.*?([\$₹€£¥])\s*([0-9,]+(\.[0-9]{2})?)/i
amountPattern2(s) ==
    keyedSymbolAmountMatch(s, {[lit |-> <<"a", "m", "o", "u", "n", "t">>, groups |-> <<>>]})

\* smsReaderService.ts:217  /([\$₹€£¥])\s*([0-9,]+(\.[0-9]{2})?)/i
amountPattern3(s) ==
    IF symbolAmountsFrom(s, 1) = {} THEN NoMatch
    ELSE LET j == Min(symbolAmountsFrom(s, 1))
             a == skipWhitespace(s, j + 1)
         IN  [matched |-> TRUE, groups |-> <<<<s[j]>>>> \o amountAt(s, a),
              numberAt |-> a, number |-> amountAt(s, a)[1]]

\* a pattern  PREFIX\s*([0-9,]+(\.[0-9]{2})?)  where PREFIX is the literal lit,
\* followed by an optional "." when dot is TRUE
prefixedAmountMatch(s, lit, dot) ==
    LET afterPrefix(p) == IF dot /\ matchesAt(s, p + Len(lit), <<".">>)
                          THEN p + Len(lit) + 1 ELSE p + Len(lit)
        starts == {p \in 1..Len(s) :
                      /\ matchesAt(s, p, lit)
                      /\ amountAt(s, skipWhitespace(s, afterPrefix(p))) # <<>>}
    IN  IF starts = {} THEN NoMatch
        ELSE LET a == skipWhitespace(s, afterPrefix(Min(starts)))
             IN  [matched |-> TRUE, groups |-> amountAt(s, a),
                  numberAt |-> a, number |-> amountAt(s, a)[1]]

\* smsReaderService.ts:218  /rs\.?\s*([0-9,]+(\.[0-9]{2})?)/i
amountPattern4(s) == prefixedAmountMatch(s, <<"r", "s">>, TRUE)

\* smsReaderService.ts:219  /inr\s*([0-9,]+(\.[0-9]{2})?)/i
amountPattern5(s) == prefixedAmountMatch(s, <<"i", "n", "r">>, FALSE)

\* normalizedMsg.match(pattern) for each amount pattern, in list order
amountMatches(s) ==
    <<amountPattern1(s), amountPattern2(s), amountPattern3(s), amountPattern4(s),
      amountPattern5(s)>>

(***************************************************************************)
(* extractCardInfoFromSms                                                  *)
(***************************************************************************)
\* the value of an absent field
null == 0 - 2

\* a day validation without the upper limit
isValidDayNoUpperLimit(n) == n # NaN /\ n >= 1

\* a day validation that accepts every number
isValidDayAnyNumber(n) == n # NaN

\* smsReaderService.ts:227  !isNaN(d) && d >= 1 && d <= 31
isValidDay(n) == n # NaN /\ n >= 1 /\ n <= 31

\* smsReaderService.ts:262  !isNaN(a) && a > 0
isValidAmount(a) == a # NaN /\ a > 0

\* the group the date loops read: match[match.length - 1]
lastGroup(m) == m.groups[Len(m.groups)]

RECURSIVE searchDate(_, _, _)
\* the loop over the date patterns from index k on: the first pattern that
\* matches with a truthy last group whose parseInt is a day 1..31
searchDate(s, patterns, k) ==
    IF k > Len(patterns) THEN null
    ELSE LET match == dayMatch(s, patterns[k])
         IN  IF /\ match.matched
                /\ lastGroup(match) # <<>>
                /\ isValidDay(parseInt(lastGroup(match)))
             THEN parseInt(lastGroup(match))
             ELSE searchDate(s, patterns, k + 1)

\* smsReaderService.ts:253-258: the text the amount is parsed from, <<>> when
\* neither match[2] nor match[1] parses as a number
amountStrOf(match) ==
    LET g1 == match.groups[1]
        g2 == match.groups[2]
    IN  IF g2 # <<>> /\ parseFloat(stripCommas(g2)) # NaN THEN stripCommas(g2)
        ELSE IF g1 # <<>> /\ parseFloat(stripCommas(g1)) # NaN THEN stripCommas(g1)
        ELSE <<>>

RECURSIVE searchAmount(_, _)
\* the loop over the amount patterns from index k on
searchAmount(matches, k) ==
    IF k > Len(matches) THEN null
    ELSE LET match == matches[k]
         IN  IF /\ match.matched
                /\ amountStrOf(match) # <<>>
                /\ isValidAmount(parseFloat(amountStrOf(match)))
             THEN parseFloat(amountStrOf(match))
             ELSE searchAmount(matches, k + 1)

NoResult ==
    [foundInfo |-> FALSE, billGenerationDate |-> null, billDueDate |-> null,
     amount |-> null]

\* smsReaderService.ts:222-233: the search for the bill date
searchBillDate(res, s) ==
    LET d == searchDate(s, billDatePatterns, 1)
    IN  IF d = null THEN res
        ELSE [res EXCEPT !.billGenerationDate = d, !.foundInfo = TRUE]

\* smsReaderService.ts:235-246: the search for the due date
searchDueDate(res, s) ==
    LET d == searchDate(s, dueDatePatterns, 1)
    IN  IF d = null THEN res
        ELSE [res EXCEPT !.billDueDate = d, !.foundInfo = TRUE]

\* a search for the amount that stores the amount and leaves foundInfo alone
searchForAmountNoFlag(res, s) ==
    LET a == searchAmount(amountMatches(s), 1)
    IN  IF a = null THEN res ELSE [res EXCEPT !.amount = a]

\* smsReaderService.ts:248-269: the search for the amount
searchForAmount(res, s) ==
    LET a == searchAmount(amountMatches(s), 1)
    IN  IF a = null THEN res
        ELSE [res EXCEPT !.amount = a, !.foundInfo = TRUE]

\* extractCardInfoFromSms(message, card), from its normalized message on; the card
\* takes no part in it
extractCardInfoFromSms(s) ==
    searchForAmount(searchDueDate(searchBillDate(NoResult, s), s), s)

(***************************************************************************)
(* Messages                                                                *)
(***************************************************************************)
\* greatest number of fragments a generated message is made of
MaxFragments == 3

\* "Billing Date: 45"
FragBillingDate45 ==
    <<"B", "i", "l", "l", "i", "n", "g", " ", "D", "a", "t", "e", ":", " ", "4", "5">>

\* "Statement\ngenerated  on 15th,"
FragStatementGenerated ==
    <<"S", "t", "a", "t", "e", "m", "e", "n", "t", "\n", "g", "e", "n", "e", "r", "a", "t",
      "e", "d", " ", " ", "o", "n", " ", "1", "5", "t", "h", ",">>

\* "due on 2024"
FragDueOnYear ==
    <<"d", "u", "e", " ", "o", "n", " ", "2", "0", "2", "4">>

\* "Due date 32nd"
FragDueDate32 ==
    <<"D", "u", "e", " ", "d", "a", "t", "e", " ", "3", "2", "n", "d">>

\* "Pay by 5th"
FragPayBy ==
    <<"P", "a", "y", " ", "b", "y", " ", "5", "t", "h">>

\* "Payment due"
FragPaymentDue ==
    <<"P", "a", "y", "m", "e", "n", "t", " ", "d", "u", "e">>

\* "card ending 1234"
FragCardEnding ==
    <<"c", "a", "r", "d", " ", "e", "n", "d", "i", "n", "g", " ", "1", "2", "3", "4">>

\* "Total due"
FragTotalDue ==
    <<"T", "o", "t", "a", "l", " ", "d", "u", "e">>

\* "Amount:"
FragAmount ==
    <<"A", "m", "o", "u", "n", "t", ":">>

\* "Rs. 4,500.00"
FragRsSeparated ==
    <<"R", "s", ".", " ", "4", ",", "5", "0", "0", ".", "0", "0">>

\* "INR 1,250.50"
FragInrSeparated ==
    <<"I", "N", "R", " ", "1", ",", "2", "5", "0", ".", "5", "0">>

\* "Rs 300"
FragRsPlain ==
    <<"R", "s", " ", "3", "0", "0">>

\* "$99"
FragDollar ==
    <<"$", "9", "9">>

\* "₹ 1,000.00"
FragRupee ==
    <<"₹", " ", "1", ",", "0", "0", "0", ".", "0", "0">>

Fragments ==
    {FragBillingDate45, FragStatementGenerated, FragDueOnYear, FragDueDate32,
     FragPayBy, FragPaymentDue, FragCardEnding, FragTotalDue, FragAmount, FragRsSeparated,
     FragInrSeparated, FragRsPlain, FragDollar, FragRupee}

\* spec.md section 8: the statement example: "Your HDFC card statement generated on 15th, total due Rs. 4,500.00"
MsgStatementExample ==
    <<"Y", "o", "u", "r", " ", "H", "D", "F", "C", " ", "c", "a", "r", "d", " ", "s", "t",
      "a", "t", "e", "m", "e", "n", "t", " ", "g", "e", "n", "e", "r", "a", "t", "e", "d",
      " ", "o", "n", " ", "1", "5", "t", "h", ",", " ", "t", "o", "t", "a", "l", " ", "d",
      "u", "e", " ", "R", "s", ".", " ", "4", ",", "5", "0", "0", ".", "0", "0">>

\* spec.md section 8: the payment-due example: "payment due on 5th for card ending 1234"
MsgPaymentDueExample ==
    <<"p", "a", "y", "m", "e", "n", "t", " ", "d", "u", "e", " ", "o", "n", " ", "5", "t",
      "h", " ", "f", "o", "r", " ", "c", "a", "r", "d", " ", "e", "n", "d", "i", "n", "g",
      " ", "1", "2", "3", "4">>

\* spec.md section 8: the no-match example: "Thank you for your payment"
MsgThankYouExample ==
    <<"T", "h", "a", "n", "k", " ", "y", "o", "u", " ", "f", "o", "r", " ", "y", "o", "u",
      "r", " ", "p", "a", "y", "m", "e", "n", "t">>

ExampleMessages == {MsgStatementExample, MsgPaymentDueExample, MsgThankYouExample}

RECURSIVE joinFragments(_)
\* the fragments of fs, in order, separated by single spaces
joinFragments(fs) ==
    IF Len(fs) = 1 THEN fs[1] ELSE fs[1] \o <<" ">> \o joinFragments(Tail(fs))

\* the message bodies of the model: the examples, and up to MaxFragments different
\* fragments in any order (every pattern takes its first match, so a fragment
\* written twice reads as the fragment written once)
Messages ==
    ExampleMessages \cup
    UNION {{joinFragments(fs) :
               fs \in {g \in [1..n -> Fragments] :
                         \A i \in 1..n, j \in 1..n : i # j => g[i] # g[j]}} :
           n \in 1..MaxFragments}

(***************************************************************************)
(* The card API, the SMS scan, the SMS listener and the card form.         *)
(* An asynchronous handler is one action per stretch between two awaits:   *)
(* the action that follows a call to the card API draws the call's outcome.*)
(***************************************************************************)
\* String.prototype.includes
includes(s, sub) == sub = <<>> \/ \E i \in 1..Len(s) : matchesAt(s, i, sub)

\* Array.prototype.includes
arrayIncludes(arr, x) == \E i \in 1..Len(arr) : arr[i] = x

\* a number is truthy: not null, not NaN, not 0
truthy(v) == v # null /\ v # NaN /\ v # 0

\* /^\d{4}$/.test(s)
isFourDigits(s) == Len(s) = 4 /\ \A i \in 1..4 : IsDigit(s[i])

\* the two fields an update built from a message may carry
DateFields == {"billGenerationDate", "billDueDate"}

\* an update object that also copies the amount
updateDataWithAmount(update) ==
    [f \in {g \in DateFields \cup {"amount"} : truthy(update[g])} |-> update[f]]

\* smsReaderService.ts:284-292 and smsListenerService.ts:153-161: updateData, the
\* object holding each truthy date of the extraction and nothing else
updateDataOf(update) == [f \in {g \in DateFields : truthy(update[g])} |-> update[f]]

\* cardApi.updateCard's validation (auth.tsx:307-317): it throws before any request
updateCardInvalid(updates) ==
    \/ /\ "lastFourDigits" \in DOMAIN updates
       /\ updates.lastFourDigits # <<>>
       /\ ~isFourDigits(updates.lastFourDigits)
    \/ \E f \in DateFields \cap DOMAIN updates :
          truthy(updates[f]) /\ (updates[f] < 1 \/ updates[f] > 31)

\* the ways a call cardApi.updateCard(id, updates) ends: "invalid" (validation
\* throws), "offline" (no connection or no token: throws, nothing sent), "rejected"
\* (request sent, response not ok: throws), "ok" (request sent, resolves)
updateCardOutcomes(updates) ==
    IF updateCardInvalid(updates) THEN {"invalid"} ELSE {"offline", "rejected", "ok"}

\* cardApi.createCard (auth.tsx:236-271) validates the card number only
createCardOutcomes(cardData) ==
    IF cardData.lastFourDigits = <<>> \/ ~isFourDigits(cardData.lastFourDigits)
    THEN {"invalid"} ELSE {"offline", "rejected", "ok"}

\* the call put a request on the wire
requestSent(outcome) == outcome \in {"rejected", "ok"}

\* one external effect: the operation, the card it concerns, the data it carries
\* and what it returned
LogEntry(op, card, data, ret) == [op |-> op, card |-> card, data |-> data, ret |-> ret]

\* the cards
CardHdfc == [lastFourDigits |-> <<"1", "2", "3", "4">>, bankName |-> <<"H", "D", "F", "C">>]
CardIcici == [lastFourDigits |-> <<"5", "6", "7", "8">>, bankName |-> <<"I", "C", "I", "C", "I">>]

\* the card lists handed to a scan
CardLists == {<<CardHdfc, CardIcici>>, <<CardIcici, CardHdfc>>, <<CardHdfc>>}

\* the inbox messages
\* "Card 1234: Statement generated on 15th, pay by 5th"
SmsStatementHdfc ==
    [address |-> <<"V", "M", "-", "H", "D", "F", "C", "B", "K">>,
     body |->
        <<"C", "a", "r", "d", " ", "1", "2", "3", "4", ":", " ", "S", "t", "a", "t", "e",
          "m", "e", "n", "t", " ", "g", "e", "n", "e", "r", "a", "t", "e", "d", " ", "o",
          "n", " ", "1", "5", "t", "h", ",", " ", "p", "a", "y", " ", "b", "y", " ", "5",
          "t", "h">>]

\* "payment due on 7th for card ending 1234"
SmsDueHdfc ==
    [address |-> <<"V", "M", "-", "H", "D", "F", "C", "B", "K">>,
     body |->
        <<"p", "a", "y", "m", "e", "n", "t", " ", "d", "u", "e", " ", "o", "n", " ", "7",
          "t", "h", " ", "f", "o", "r", " ", "c", "a", "r", "d", " ", "e", "n", "d", "i",
          "n", "g", " ", "1", "2", "3", "4">>]

\* "ICICI card 5678 Total due Rs 300"
SmsAmountIcici ==
    [address |-> <<"A", "D", "-", "I", "C", "I", "C", "I", "B">>,
     body |->
        <<"I", "C", "I", "C", "I", " ", "c", "a", "r", "d", " ", "5", "6", "7", "8", " ",
          "T", "o", "t", "a", "l", " ", "d", "u", "e", " ", "R", "s", " ", "3", "0", "0">>]

\* "Card 5678 due date 32nd"
SmsInvalidIcici ==
    [address |-> <<"A", "D", "-", "I", "C", "I", "C", "I", "B">>,
     body |->
        <<"C", "a", "r", "d", " ", "5", "6", "7", "8", " ", "d", "u", "e", " ", "d", "a",
          "t", "e", " ", "3", "2", "n", "d">>]

\* "Dinner is due on 9th, card 1234 please"
SmsFriend ==
    [address |-> <<"+", "1", "5", "5", "5", "0", "1", "0", "0">>,
     body |->
        <<"D", "i", "n", "n", "e", "r", " ", "i", "s", " ", "d", "u", "e", " ", "o", "n",
          " ", "9", "t", "h", ",", " ", "c", "a", "r", "d", " ", "1", "2", "3", "4", " ",
          "p", "l", "e", "a", "s", "e">>]

\* "Card 1234 / card 5678: Rs 300 due date 20th"
SmsBothCards ==
    [address |-> <<"A", "D", "-", "I", "C", "I", "C", "I", "B">>,
     body |->
        <<"C", "a", "r", "d", " ", "1", "2", "3", "4", " ", "/", " ", "c", "a", "r", "d",
          " ", "5", "6", "7", "8", ":", " ", "R", "s", " ", "3", "0", "0", " ", "d", "u",
          "e", " ", "d", "a", "t", "e", " ", "2", "0", "t", "h">>]

SmsMessages ==
    {SmsStatementHdfc, SmsDueHdfc, SmsAmountIcici, SmsInvalidIcici, SmsFriend, SmsBothCards}

\* the texts extractCardInfoFromSms is called with: the scan passes the body in
\* lower case, the listener passes it as received
ExtractionInputs ==
    {sms.body : sms \in SmsMessages} \cup {toLowerCase(sms.body) : sms \in SmsMessages}

\* extractCardInfoFromSms(message, card) for each of these texts: the function is
\* pure, so the client's calls read the results from this table
extractionTable ==
    [text \in ExtractionInputs |-> extractCardInfoFromSms(normalize(text))]

\* the result of extractCardInfoFromSms(text, card)
extractedFrom(text) == extractions[text]

\* greatest number of messages in the inbox
MaxSms == 2

\* the inboxes SmsAndroid.list may return
Inboxes == UNION {[1..n -> SmsMessages] : n \in 0..MaxSms}

\* smsReaderService.ts:129-131: the message relates to the bank of some card
isBankSms(cardList, sms) ==
    \E k \in 1..Len(cardList) :
        LET bank == toLowerCase(cardList[k].bankName)
        IN  includes(toLowerCase(sms.address), bank) \/ includes(toLowerCase(sms.body), bank)

\* obj[key] = value
put(obj, key, value) ==
    [k \in (DOMAIN obj) \cup {key} |-> IF k = key THEN value ELSE obj[k]]

RECURSIVE sortedKeys(_)
\* the keys in ascending numeric order
sortedKeys(keys) ==
    IF keys = {} THEN <<>>
    ELSE LET m == CHOOSE k \in keys : \A j \in keys : parseInt(k) <= parseInt(j)
         IN  <<m>> \o sortedKeys(keys \ {m})

\* Object.entries(obj)'s key order; every key of the model is an integer index,
\* which JavaScript lists in ascending numeric order
objectKeys(obj) == sortedKeys(DOMAIN obj)

\* smsReaderService.ts:119-121: the counters of one scan
NoTally == [updatedCards |-> 0, updatedCardIds |-> <<>>, cardUpdates |-> <<>>]

\* the entry stored for a card: { cardId, ...extracted }
cardUpdateOf(card, extracted) ==
    [cardId |-> card.lastFourDigits, foundInfo |-> extracted.foundInfo,
     billGenerationDate |-> extracted.billGenerationDate,
     billDueDate |-> extracted.billDueDate, amount |-> extracted.amount]

\* a card already updated in this scan is examined again
alreadyUpdatedNever(tally, card) == FALSE

\* smsReaderService.ts:138: the card already has an update in this scan
alreadyUpdated(tally, card) == arrayIncludes(tally.updatedCardIds, card.lastFourDigits)

RECURSIVE scanCards(_, _, _, _)
\* smsReaderService.ts:136-154: the loop over the cards for one message, from card k
scanCards(cardList, k, msg, tally) ==
    IF k > Len(cardList) THEN tally
    ELSE LET card == cardList[k]
             extracted == extractedFrom(msg)
         IN  IF alreadyUpdated(tally, card) THEN scanCards(cardList, k + 1, msg, tally)
             ELSE IF includes(msg, card.lastFourDigits) /\ extracted.foundInfo
             THEN scanCards(cardList, k + 1, msg,
                     [updatedCards |-> tally.updatedCards + 1,
                      updatedCardIds |-> Append(tally.updatedCardIds, card.lastFourDigits),
                      cardUpdates |-> put(tally.cardUpdates, card.lastFourDigits,
                                          cardUpdateOf(card, extracted))])
             ELSE scanCards(cardList, k + 1, msg, tally)

RECURSIVE scanMessages(_, _, _, _)
\* smsReaderService.ts:124-155: the loop over the messages, from message i
scanMessages(cardList, smsList, i, tally) ==
    IF i > Len(smsList) THEN tally
    ELSE IF ~isBankSms(cardList, smsList[i])
         THEN scanMessages(cardList, smsList, i + 1, tally)
         ELSE scanMessages(cardList, smsList, i + 1,
                           scanCards(cardList, 1, toLowerCase(smsList[i].body), tally))

\* updateCardsWithApi's loop (smsReaderService.ts:282-300): the cards it calls the
\* API for, in order; an entry with no date is skipped
pendingCalls(cardUpdates) ==
    SelectSeq(objectKeys(cardUpdates),
              LAMBDA key : DOMAIN updateDataOf(cardUpdates[key]) # {})

\* what a scan resolves with when it fails
scanFailed == [success |-> FALSE, updatedCards |-> null, updates |-> <<>>]

\* smsReaderService.ts:162-167: what scanAndroidSms resolves with after its loop
scanSucceeded(tally) ==
    [success |-> TRUE, updatedCards |-> tally.updatedCards, updates |-> tally.cardUpdates]

NoScan ==
    [pc |-> "idle", platform |-> "none", inbox |-> <<>>, tally |-> NoTally,
     queue |-> <<>>, result |-> scanFailed]

\* the platforms and, for each, the answers to the permission dialog
Platforms == {"android", "ios", "web"}

PermissionAnswers(os) ==
    IF os = "android" THEN {"granted", "denied", "never_ask_again"}
    ELSE IF os = "ios" THEN {"cancel", "settings"}
    ELSE {"none"}

\* smsPermissionService.ts:32-96: the `granted` of the permission result
requestSmsPermission(os, answer) ==
    IF os = "android" THEN (IF answer = "granted" THEN "true" ELSE "false")
    ELSE IF os = "ios" THEN (IF answer = "settings" THEN "unknown" ELSE "false")
    ELSE "false"

\* a permission check that lets every answer through
permissionRefusedNever(granted) == FALSE

\* smsReaderService.ts:64  !granted
permissionRefused(granted) == granted = "false"

NoListener ==
    [pc |-> "idle", message |-> <<>>, index |-> 0, updateData |-> <<>>,
     cardUpdated |-> FALSE, settled |-> "pending"]

\* the card lists the listener may hold in cachedCards
ListenerCardLists == CardLists \cup {<<>>}

RECURSIVE nextCardToUpdate(_, _, _)
\* smsListenerService.ts:143-164: the first card from index k on that the message
\* mentions, whose extraction found something and left a date to send; 0 when none
nextCardToUpdate(cardList, k, msg) ==
    IF k > Len(cardList) THEN 0
    ELSE LET extracted == extractedFrom(msg)
         IN  IF /\ includes(msg, cardList[k].lastFourDigits)
                /\ extracted.foundInfo
                /\ DOMAIN updateDataOf(extracted) # {}
             THEN k
             ELSE nextCardToUpdate(cardList, k + 1, msg)

\* a loop that goes on to the next card after an update
afterUpdateContinue(cardList, k, msg) == nextCardToUpdate(cardList, k + 1, msg)

\* smsListenerService.ts:178: break after the first update
afterUpdate(cardList, k, msg) == 0

\* the form's day fields: "", "0", "1", "15", "31", "32", "ab", "7a"
FormDays == {<<>>, <<"0">>, <<"1">>, <<"1", "5">>, <<"3", "1">>, <<"3", "2">>, <<"a", "b">>, <<"7", "a">>}

\* the forms submitted
FormInputs ==
    [lastFourDigits : {<<"1", "2", "3", "4">>, <<"1", "2">>}, bankName : {<<"H", "D", "F", "C">>},
     userName : {<<>>, <<"A">>}, billGenerationDate : FormDays, billDueDate : FormDays]

\* a validation without the range check
validateFormNoRange(formData) ==
    /\ formData.lastFourDigits # <<>> /\ formData.bankName # <<>>
    /\ formData.userName # <<>>
    /\ formData.billGenerationDate # <<>> /\ formData.billDueDate # <<>>
    /\ isFourDigits(formData.lastFourDigits)

\* add-card.tsx:228-251
validateForm(formData) ==
    /\ formData.lastFourDigits # <<>> /\ formData.bankName # <<>>
    /\ formData.userName # <<>>
    /\ formData.billGenerationDate # <<>> /\ formData.billDueDate # <<>>
    /\ isFourDigits(formData.lastFourDigits)
    /\ LET billDate == parseInt(formData.billGenerationDate)
           dueDate == parseInt(formData.billDueDate)
       IN  ~(\/ billDate = NaN \/ dueDate = NaN
             \/ billDate < 1 \/ billDate > 31
             \/ dueDate < 1 \/ dueDate > 31)

\* add-card.tsx:301-305
cardDataOf(formData) ==
    [formData EXCEPT !.billGenerationDate = parseInt(@), !.billDueDate = parseInt(@)]

NoForm == [pc |-> "idle", editMode |-> FALSE, cardData |-> <<>>]

\* nothing of the client has run
ClientIdle ==
    /\ cards = <<>> /\ scan = NoScan /\ listener = NoListener /\ form = NoForm
    /\ log = <<>>

\* cardToDelete is null: no card is selected
NoCard == [lastFourDigits |-> <<>>, bankName |-> <<>>]

\* the home screen as mounted (index.tsx:112, 121-122), no delete under way
NoHome ==
    [isOnline |-> TRUE, confirmDialogVisible |-> FALSE, cardToDelete |-> NoCard,
     deleting |-> <<>>]

\* a call of the service that has not been made
NoCall == [pc |-> "idle", returned |-> "none", error |-> FALSE]

\* smsListenerService as loaded (part_002:35-37), the native receiver not registered,
\* no call of the native module pending
NoService ==
    [isListening |-> FALSE, smsListener |-> FALSE, cachedCards |-> <<>>,
     registered |-> FALSE, native |-> <<>>, stop |-> NoCall, start |-> NoCall]

EmptyStore == <<>>

\* userData is null (auth.tsx:22)
NoUser == [set |-> FALSE, email |-> "", phone |-> ""]

\* no signIn argument
NoSignIn == [token |-> "none", email |-> "", phone |-> ""]

\* the AuthProvider as mounted (auth.tsx:22-23): token and userData null ("none"
\* stands for the null token), no signIn under way
NoAuth ==
    [pc |-> "idle", token |-> "none", userData |-> NoUser, data |-> NoSignIn,
     before |-> [token |-> "none", userData |-> NoUser], failed |-> "none",
     thrown |-> FALSE]

\* nothing of the home screen, the listener service, the queue or signIn has run
AppIdle ==
    /\ home = NoHome /\ service = NoService /\ store = EmptyStore /\ tasks = <<>>
    /\ auth = NoAuth

\* a result object of the module, handed from one call to the next
reusedResult(prev) == prev

\* smsReaderService.ts:187-192: each call builds its own result object
newResult(prev) == NoResult

\* extractCardInfoFromSms called after a call that returned prev
extractCardInfoFromSmsAfter(prev, s) ==
    searchForAmount(searchDueDate(searchBillDate(newResult(prev), s), s), s)

InitExtract ==
    /\ today = [year |-> 2024, month |-> 0, date |-> 1, secs |-> 0]
    /\ calc = NoCalc
    /\ message \in Messages
    /\ normalizedMsg = "unset"
    /\ result = NoResult
    /\ calls = <<>>
    /\ extractions = <<>>
    /\ ClientIdle
    /\ AppIdle

\* the call extractCardInfoFromSms(message, card)
Extract ==
    /\ normalizedMsg = "unset"
    /\ normalizedMsg' = normalize(message)
    /\ result' = extractCardInfoFromSms(normalizedMsg')
    /\ UNCHANGED <<today, calc, message, calls, extractions, clientVars, appVars>>

NextExtract == Extract

SpecExtract == InitExtract /\ [][NextExtract]_vars

(***************************************************************************)
(* The calculator's specification                                          *)
(***************************************************************************)
InitCalc ==
    /\ today \in RefMoments
    /\ calc = NoCalc
    /\ message = <<>>
    /\ normalizedMsg = "unset"
    /\ result = NoResult
    /\ calls = <<>>
    /\ extractions = <<>>
    /\ ClientIdle
    /\ AppIdle

\* Each behaviour reads the clock once and makes one calculator call: both
\* functions are pure, so a second call adds no state the first does not reach.
DaysRemaining ==
    \E targetDay \in DayStrings :
        /\ calc.op = "none"
        /\ calc' = calculateDaysRemaining(targetDay, DateNow)
        /\ UNCHANGED <<today, message, normalizedMsg, result, calls, extractions, clientVars, appVars>>

CreditDays ==
    \E billDate \in DayStrings, dueDate \in DayStrings :
        /\ calc.op = "none"
        /\ calc' = calculateCreditDays(billDate, dueDate, DateNow)
        /\ UNCHANGED <<today, message, normalizedMsg, result, calls, extractions, clientVars, appVars>>

NextCalc == DaysRemaining \/ CreditDays

SpecCalc == InitCalc /\ [][NextCalc]_vars

(***************************************************************************)
(* Repeated calls of the extractor                                         *)
(***************************************************************************)
\* greatest number of calls in one behaviour
MaxCalls == 3

\* the messages the repeated calls are made with
RepeatMessages == ExampleMessages \cup {FragBillingDate45, FragPayBy}

InitRepeat ==
    /\ today = [year |-> 2024, month |-> 0, date |-> 1, secs |-> 0]
    /\ calc = NoCalc
    /\ message = <<>>
    /\ normalizedMsg = "unset"
    /\ result = NoResult
    /\ calls = <<>>
    /\ extractions = <<>>
    /\ ClientIdle
    /\ AppIdle

\* one more call extractCardInfoFromSms(message, card); the module keeps result,
\* the object the previous call returned
ExtractAgain ==
    \E msg \in RepeatMessages, card \in {CardHdfc, CardIcici} :
        /\ Len(calls) < MaxCalls
        /\ message' = msg
        /\ normalizedMsg' = normalize(msg)
        /\ result' = extractCardInfoFromSmsAfter(result, normalizedMsg')
        /\ calls' = Append(calls, [message |-> msg, card |-> card, result |-> result'])
        /\ UNCHANGED <<today, calc, extractions, clientVars, appVars>>

NextRepeat == ExtractAgain

SpecRepeat == InitRepeat /\ [][NextRepeat]_vars

(***************************************************************************)
(* The client's specification: one behaviour is one SMS scan, one received *)
(* SMS or one submitted form.                                              *)
(***************************************************************************)
InitClient ==
    /\ today = [year |-> 2024, month |-> 0, date |-> 1, secs |-> 0]
    /\ calc = NoCalc
    /\ message = <<>>
    /\ normalizedMsg = "unset"
    /\ result = NoResult
    /\ calls = <<>>
    /\ extractions = extractionTable
    /\ ClientIdle
    /\ AppIdle

\* scanAndUpdateCards(cards) up to the answer of isSmsAvailable
\* (smsReaderService.ts:54-60)
ScanCheckAvailable ==
    \E cardList \in CardLists, os \in Platforms, available \in BOOLEAN :
        /\ ClientIdle
        /\ cards' = cardList
        /\ log' = <<LogEntry("isSmsAvailable", <<>>, <<>>,
                             IF available THEN "true" ELSE "false")>>
        /\ scan' = IF available
                   THEN [scan EXCEPT !.pc = "permission", !.platform = os]
                   ELSE [scan EXCEPT !.pc = "done", !.platform = os]
        /\ UNCHANGED <<extractVars, listener, form, appVars>>

\* the answer of requestSmsPermission and the platform test
\* (smsReaderService.ts:62-75)
ScanRequestPermission ==
    /\ scan.pc = "permission"
    /\ \E answer \in PermissionAnswers(scan.platform) :
         LET granted == requestSmsPermission(scan.platform, answer)
         IN  /\ log' = Append(log, LogEntry("requestSmsPermission", <<>>, <<>>, granted))
             /\ scan' = IF ~permissionRefused(granted) /\ scan.platform = "android"
                        THEN [scan EXCEPT !.pc = "list"]
                        ELSE [scan EXCEPT !.pc = "done"]
    /\ UNCHANGED <<extractVars, cards, listener, form, appVars>>

\* SmsAndroid.list calls the fail callback, or hands over a list that does not
\* parse (smsReaderService.ts:104-107, 168-174)
ScanListFails ==
    /\ scan.pc = "list"
    /\ \E ret \in {"fail", "malformed"} :
         log' = Append(log, LogEntry("SmsAndroid.list", <<>>, <<>>, ret))
    /\ scan' = [scan EXCEPT !.pc = "done"]
    /\ UNCHANGED <<extractVars, cards, listener, form, appVars>>

\* SmsAndroid.list hands over the inbox: the loop over the messages, then
\* updateCardsWithApi up to its first call of the API (smsReaderService.ts:108-167)
ScanReadInbox ==
    /\ scan.pc = "list"
    /\ \E inbox \in Inboxes :
         LET tally == scanMessages(cards, inbox, 1, NoTally)
             queue == pendingCalls(tally.cardUpdates)
         IN  /\ log' = Append(log, LogEntry("SmsAndroid.list", <<>>, <<>>, "ok"))
             /\ scan' = IF tally.updatedCards > 0 /\ queue # <<>>
                        THEN [scan EXCEPT !.pc = "updating", !.inbox = inbox,
                                          !.tally = tally, !.queue = queue]
                        ELSE [scan EXCEPT !.pc = "done", !.inbox = inbox,
                                          !.tally = tally,
                                          !.result = scanSucceeded(tally)]
    /\ UNCHANGED <<extractVars, cards, listener, form, appVars>>

\* a call cardApi.updateCard of updateCardsWithApi ends: the loop goes on to the
\* next entry, or it is over (last entry, or the catch of smsReaderService.ts:303)
\* and scanAndroidSms resolves (smsReaderService.ts:298-309, 158-167)
ScanUpdateCard ==
    /\ scan.pc = "updating"
    /\ LET key == Head(scan.queue)
           data == updateDataOf(scan.tally.cardUpdates[key])
       IN  \E outcome \in updateCardOutcomes(data) :
              /\ log' = Append(log, LogEntry("updateCard", key, data, outcome))
              /\ scan' = IF outcome = "ok" /\ Len(scan.queue) > 1
                         THEN [scan EXCEPT !.queue = Tail(@)]
                         ELSE [scan EXCEPT !.pc = "done",
                                           !.result = scanSucceeded(scan.tally)]
    /\ UNCHANGED <<extractVars, cards, listener, form, appVars>>

\* handleSmsReceived(event) up to its first call of the API
\* (smsListenerService.ts:127-167)
ListenerReceive ==
    \E cardList \in ListenerCardLists, event \in SmsMessages :
        LET k == nextCardToUpdate(cardList, 1, event.body)
        IN  /\ ClientIdle
            /\ cards' = cardList
            /\ listener' =
                 IF k = 0
                 THEN [listener EXCEPT !.pc = "done", !.message = event.body,
                                       !.settled = "fulfilled"]
                 ELSE [listener EXCEPT
                         !.pc = "awaiting", !.message = event.body, !.index = k,
                         !.updateData = updateDataOf(extractedFrom(event.body))]
            /\ UNCHANGED <<extractVars, scan, form, log, appVars>>

\* the call cardApi.updateCard of handleSmsReceived ends: the event and the break,
\* or the catch (smsListenerService.ts:167-188)
ListenerUpdateResolves ==
    /\ listener.pc = "awaiting"
    /\ LET card == cards[listener.index].lastFourDigits
           next == afterUpdate(cards, listener.index, listener.message)
       IN  \E outcome \in updateCardOutcomes(listener.updateData) :
              LET call == LogEntry("updateCard", card, listener.updateData, outcome)
              IN  IF outcome = "ok"
                  THEN /\ log' = log \o <<call, LogEntry("emit", card, listener.updateData,
                                                          "CardUpdatedFromSMS")>>
                       /\ listener' =
                            IF next = 0
                            THEN [listener EXCEPT !.pc = "done", !.cardUpdated = TRUE,
                                                  !.settled = "fulfilled"]
                            ELSE [listener EXCEPT !.index = next, !.cardUpdated = TRUE]
                  ELSE /\ log' = Append(log, call)
                       /\ listener' = [listener EXCEPT !.pc = "done",
                                                       !.settled = "fulfilled"]
    /\ UNCHANGED <<extractVars, cards, scan, form, appVars>>

\* handleSubmit up to its call of the API (add-card.tsx:289-312)
FormSubmit ==
    \E formData \in FormInputs, editMode \in BOOLEAN, isOnline \in BOOLEAN :
        /\ ClientIdle
        /\ form' = IF validateForm(formData) /\ isOnline
                   THEN [pc |-> "saving", editMode |-> editMode,
                         cardData |-> cardDataOf(formData)]
                   ELSE [pc |-> "done", editMode |-> editMode, cardData |-> <<>>]
        /\ UNCHANGED <<extractVars, cards, scan, listener, log, appVars>>

\* the form's call of cardApi.updateCard or cardApi.createCard ends
\* (add-card.tsx:307-323)
FormSaveResolves ==
    /\ form.pc = "saving"
    /\ LET op == IF form.editMode THEN "updateCard" ELSE "createCard"
           outcomes == IF form.editMode THEN updateCardOutcomes(form.cardData)
                       ELSE createCardOutcomes(form.cardData)
       IN  \E outcome \in outcomes :
              log' = Append(log, LogEntry(op, form.cardData.lastFourDigits,
                                          form.cardData, outcome))
    /\ form' = [form EXCEPT !.pc = "done"]
    /\ UNCHANGED <<extractVars, cards, scan, listener, appVars>>

NextClient ==
    \/ ScanCheckAvailable
    \/ ScanRequestPermission
    \/ ScanListFails
    \/ ScanReadInbox
    \/ ScanUpdateCard
    \/ ListenerReceive
    \/ ListenerUpdateResolves
    \/ FormSubmit
    \/ FormSaveResolves

SpecClient == InitClient /\ [][NextClient]_vars

(***************************************************************************)
(* cardApi.updateCard called directly: one behaviour is one call with any  *)
(* update object a caller can hand it.                                     *)
(***************************************************************************)
\* the day values a caller can put in an update: below the range, zero, the ends of
\* the range, above the range, and NaN (a day field that did not parse)
UpdateDays == {0 - 5, 0, 1, 31, 32, NaN}

\* the update objects: each date field absent or one of the days
UpdateInputs ==
    UNION {[fs -> UpdateDays] : fs \in SUBSET DateFields}

\* the validation of cardApi.updateCard (auth.tsx:307-317): the message of the error
\* it throws, "none" when it lets the update pass
updateCardError(updates) ==
    IF /\ "lastFourDigits" \in DOMAIN updates
       /\ updates.lastFourDigits # <<>>
       /\ ~isFourDigits(updates.lastFourDigits)
    THEN "Card number must be exactly 4 digits"
    ELSE IF /\ "billGenerationDate" \in DOMAIN updates
            /\ truthy(updates.billGenerationDate)
            /\ (updates.billGenerationDate < 1 \/ updates.billGenerationDate > 31)
    THEN "Invalid bill generation date"
    ELSE IF /\ "billDueDate" \in DOMAIN updates
            /\ truthy(updates.billDueDate)
            /\ (updates.billDueDate < 1 \/ updates.billDueDate > 31)
    THEN "Invalid due date"
    ELSE "none"

\* the ways a call cardApi.updateCard(id, updates) ends (auth.tsx:304-347): the
\* message of the validation error, or "offline", "rejected", "ok" as above
updateCardResults(updates) ==
    IF updateCardError(updates) # "none" THEN {updateCardError(updates)}
    ELSE {"offline", "rejected", "ok"}

InitApi ==
    /\ today = [year |-> 2024, month |-> 0, date |-> 1, secs |-> 0]
    /\ calc = NoCalc
    /\ message = <<>>
    /\ normalizedMsg = "unset"
    /\ result = NoResult
    /\ calls = <<>>
    /\ extractions = <<>>
    /\ ClientIdle
    /\ AppIdle

\* one call cardApi.updateCard(id, updates), from its first line to its return or
\* throw (auth.tsx:304-347)
UpdateCardCall ==
    \E card \in {CardHdfc, CardIcici}, updates \in UpdateInputs :
        /\ log = <<>>
        /\ \E outcome \in updateCardResults(updates) :
              log' = <<LogEntry("updateCard", card.lastFourDigits, updates, outcome)>>
        /\ UNCHANGED <<extractVars, cards, scan, listener, form, appVars>>

NextApi == UpdateCardCall

SpecApi == InitApi /\ [][NextApi]_vars

\* the extractor and the calculator have not run
ExtractIdle ==
    /\ today = [year |-> 2024, month |-> 0, date |-> 1, secs |-> 0]
    /\ calc = NoCalc
    /\ message = <<>>
    /\ normalizedMsg = "unset"
    /\ result = NoResult
    /\ calls = <<>>
    /\ extractions = <<>>

(***************************************************************************)
(* The home screen's delete dialog (index.tsx): the user presses a card's  *)
(* delete button, confirms or cancels the dialog, the connection comes and *)
(* goes, and the delete calls end, in any order.                           *)
(***************************************************************************)
\* the user actions and call results one behaviour records
MaxHomeEvents == 6

\* the home screen ignores a delete press while offline (index.tsx:331-336): here it
\* does not
handleDeleteAlways(h, card) ==
    [h EXCEPT !.cardToDelete = card, !.confirmDialogVisible = TRUE]

\* handleDelete(card) (index.tsx:328-342): the home screen's state after it
handleDelete(h, card) ==
    IF ~h.isOnline THEN h
    ELSE [h EXCEPT !.cardToDelete = card, !.confirmDialogVisible = TRUE]

\* cancelDelete() (index.tsx:386-390)
cancelDelete(h) ==
    [h EXCEPT !.confirmDialogVisible = FALSE, !.cardToDelete = NoCard]

\* the ways a call cardApi.deleteCard(lastFourDigits) ends (auth.tsx:349-394):
\* "offline" (no connection: throws, nothing sent), "rejected" (request sent, response
\* not ok: throws), "ok" (request sent, resolves)
deleteCardOutcomes == {"offline", "rejected", "ok"}

\* a sequence without its k-th element
removeAt(seq, k) == SubSeq(seq, 1, k - 1) \o SubSeq(seq, k + 1, Len(seq))

\* the card list without the card ending in digits
withoutCard(cardList, digits) ==
    SelectSeq(cardList, LAMBDA c : c.lastFourDigits # digits)

InitHome ==
    /\ ExtractIdle
    /\ cards \in CardLists
    /\ scan = NoScan /\ listener = NoListener /\ form = NoForm /\ log = <<>>
    /\ AppIdle

\* NetInfo reports a change of the connection (index.tsx:216-218)
NetworkChange ==
    /\ home' = [home EXCEPT !.isOnline = ~home.isOnline]
    /\ UNCHANGED <<extractVars, clientVars, service, store, tasks, auth>>

\* the user presses the delete button of a listed card (index.tsx:742-745, 328-342)
PressDelete ==
    \E k \in 1..Len(cards) :
        /\ Len(log) < MaxHomeEvents
        /\ home' = handleDelete(home, cards[k])
        /\ log' = Append(log, LogEntry("handleDelete", cards[k].lastFourDigits,
                                       IF handleDelete(cancelDelete(home), cards[k])
                                             .confirmDialogVisible
                                       THEN "opened" ELSE "ignored",
                                       IF home.isOnline THEN "online" ELSE "offline"))
        /\ UNCHANGED <<extractVars, cards, scan, listener, form, service, store, tasks,
                       auth>>

\* the user presses the dialog's Delete button: confirmDelete() up to its await
\* (index.tsx:345-358)
ConfirmDelete ==
    /\ home.confirmDialogVisible
    /\ Len(log) + 2 <= MaxHomeEvents
    /\ IF home.cardToDelete = NoCard
       THEN /\ log' = Append(log, LogEntry("confirmDelete", <<>>, <<>>, "none"))
            /\ UNCHANGED home
       ELSE /\ home' = [home EXCEPT !.confirmDialogVisible = FALSE,
                                    !.deleting = Append(@, home.cardToDelete)]
            /\ log' = log \o
                  <<LogEntry("confirmDelete", home.cardToDelete.lastFourDigits, <<>>,
                             "none"),
                    LogEntry("deleteCard", home.cardToDelete.lastFourDigits, <<>>,
                             "called")>>
    /\ UNCHANGED <<extractVars, cards, scan, listener, form, service, store, tasks, auth>>

\* the user presses the dialog's Cancel button (index.tsx:386-390)
CancelDelete ==
    /\ home.confirmDialogVisible
    /\ Len(log) < MaxHomeEvents
    /\ home' = cancelDelete(home)
    /\ log' = Append(log, LogEntry("cancelDelete", <<>>, <<>>, "none"))
    /\ UNCHANGED <<extractVars, cards, scan, listener, form, service, store, tasks, auth>>

\* a delete call ends; after a success the list is fetched again
\* (index.tsx:358-382)
DeleteResolves ==
    \E k \in 1..Len(home.deleting), outcome \in deleteCardOutcomes :
        /\ home' = [home EXCEPT !.deleting = removeAt(@, k)]
        /\ log' = Append(log, LogEntry("deleteCardResult",
                                       home.deleting[k].lastFourDigits, <<>>, outcome))
        /\ cards' = IF outcome = "ok"
                    THEN withoutCard(cards, home.deleting[k].lastFourDigits)
                    ELSE cards
        /\ UNCHANGED <<extractVars, scan, listener, form, service, store, tasks, auth>>

NextHome ==
    \/ NetworkChange
    \/ PressDelete
    \/ ConfirmDelete
    \/ CancelDelete
    \/ DeleteResolves

SpecHome == InitHome /\ [][NextHome]_vars

(***************************************************************************)
(* cardQueue (cardQueue.ts) over the device storage: calls of addToQueue,  *)
(* getQueue and clearQueue start at any time and advance, each from one    *)
(* await to the next, in any order; a storage call can fail.               *)
(***************************************************************************)
\* the calls of cardQueue one behaviour makes
MaxQueueCalls == 3

\* the storage key of the queue (cardQueue.ts:14, 22, 32)
QueueKey == "card_operations_queue"

\* the operations handed to addToQueue: QueueOperation records (cardQueue.ts:3-7)
\* whose data are card fields and whose timestamps differ
QueueOps ==
    {[type |-> "create", data |-> [lastFourDigits |-> CardHdfc.lastFourDigits,
                                   billDueDate |-> 5], timestamp |-> 1],
     [type |-> "update", data |-> [lastFourDigits |-> CardHdfc.lastFourDigits,
                                   billDueDate |-> 20], timestamp |-> 2],
     [type |-> "delete", data |-> [lastFourDigits |-> CardIcici.lastFourDigits,
                                   billDueDate |-> 31], timestamp |-> 3]}

\* a number as JSON.stringify writes it and JSON.parse reads it back: NaN becomes null
jsonNumber(n) == IF n = NaN THEN null ELSE n

\* JSON.stringify(queue) (cardQueue.ts:14), written as the array the text denotes
stringify(queue) ==
    [i \in 1..Len(queue) |->
        [queue[i] EXCEPT !.data.billDueDate = jsonNumber(@),
                         !.timestamp = jsonNumber(@)]]

\* JSON.parse(text) of a text JSON.stringify wrote (cardQueue.ts:23)
parse(text) == text

\* `queue ? JSON.parse(queue) : []` (cardQueue.ts:23) for the storage s
storedQueue(s) == IF QueueKey \in DOMAIN s THEN parse(s[QueueKey]) ELSE <<>>

\* the operation is put in front of the queue
unshift(queue, operation) == <<operation>> \o queue

\* queue.push(operation) (cardQueue.ts:13)
push(queue, operation) == Append(queue, operation)

NoOperation == [type |-> "none", data |-> <<>>, timestamp |-> 0]

\* how a call ended, for the record: a storage call of it failed, or another call was
\* in flight during it, or neither
endOf(task) ==
    IF task.failed THEN "failed" ELSE IF task.overlapped THEN "overlapped" ELSE "alone"

InitQueue ==
    /\ ExtractIdle
    /\ ClientIdle
    /\ AppIdle

\* a call of addToQueue(operation), getQueue() or clearQueue(), up to its first
\* await of the storage (cardQueue.ts:10-12, 20-22, 30-32)
QueueCall ==
    \E kind \in {"addToQueue", "getQueue", "clearQueue"},
       operation \in QueueOps \cup {NoOperation} :
        /\ Len(log) + Len(tasks) < MaxQueueCalls
        /\ (kind = "addToQueue") = (operation # NoOperation)
        /\ \A i \in 1..Len(log) : log[i].op = "addToQueue" => log[i].data # operation
        /\ \A k \in 1..Len(tasks) : tasks[k].operation # operation \/ kind # "addToQueue"
        /\ tasks' = [k \in 1..Len(tasks) |-> [tasks[k] EXCEPT !.overlapped = TRUE]] \o
                    <<[kind |-> kind, operation |-> operation,
                       pc |-> IF kind = "clearQueue" THEN "setItem" ELSE "getItem",
                       queue |-> <<>>, overlapped |-> tasks # <<>>, failed |-> FALSE]>>
        /\ UNCHANGED <<extractVars, clientVars, home, service, store, auth>>

\* storage.getItem of a call's getQueue resolves or rejects; getQueue returns; a
\* direct call ends here, addToQueue pushes and calls storage.setItem
\* (cardQueue.ts:20-28, 12-14)
QueueGetItemReturns ==
    \E k \in 1..Len(tasks), ok \in BOOLEAN :
        /\ tasks[k].pc = "getItem"
        /\ LET queue == IF ok THEN storedQueue(store) ELSE <<>>
               task == [tasks[k] EXCEPT !.failed = ~ok]
           IN  IF task.kind = "getQueue"
               THEN /\ tasks' = removeAt(tasks, k)
                    /\ log' = Append(log, LogEntry("getQueue", <<>>, queue, endOf(task)))
               ELSE /\ tasks' = [tasks EXCEPT ![k] =
                                    [task EXCEPT !.pc = "setItem",
                                                 !.queue = push(queue, task.operation)]]
                    /\ UNCHANGED log
        /\ UNCHANGED <<extractVars, cards, scan, listener, form, home, service, store,
                       auth>>

\* storage.setItem of addToQueue or clearQueue resolves or rejects; the call ends
\* (cardQueue.ts:14-17, 32-35)
QueueSetItemReturns ==
    \E k \in 1..Len(tasks), ok \in BOOLEAN :
        /\ tasks[k].pc = "setItem"
        /\ store' = IF ok THEN put(store, QueueKey, stringify(tasks[k].queue)) ELSE store
        /\ tasks' = removeAt(tasks, k)
        /\ log' = Append(log, LogEntry(tasks[k].kind, <<>>, tasks[k].operation,
                                       endOf([tasks[k] EXCEPT !.failed = @ \/ ~ok])))
        /\ UNCHANGED <<extractVars, cards, scan, listener, form, home, service, auth>>

NextQueue ==
    \/ QueueCall
    \/ QueueGetItemReturns
    \/ QueueSetItemReturns

SpecQueue == InitQueue /\ [][NextQueue]_vars

(***************************************************************************)
(* signIn of the AuthProvider (auth.tsx:66-93): one behaviour is one call, *)
(* made signed out or over an earlier session; each storage call of it can *)
(* fail.                                                                   *)
(***************************************************************************)
\* the arguments of signIn: a token, and an email and a phone that can be empty
SignInInputs ==
    [token : {"t1", "t2"}, email : {"", "a@x.io"}, phone : {"", "5550100"}]

\* the session a call can find: none, or the one of an earlier sign-in
EarlierSession == [token |-> "t0", email |-> "old@x.io", phone |-> ""]

\* what setUserData receives (auth.tsx:85-88)
userDataOf(data) == [set |-> TRUE, email |-> data.email, phone |-> data.phone]

\* the storage after the session's sign-in wrote it (auth.tsx:69-77)
storeOf(data) ==
    LET withToken == put(EmptyStore, "userToken", data.token)
        withEmail == IF data.email # "" THEN put(withToken, "userEmail", data.email)
                     ELSE withToken
    IN  IF data.phone # "" THEN put(withEmail, "userPhone", data.phone) ELSE withEmail

\* the storage call after the write of key (auth.tsx:69-80): only a non-empty email
\* and phone are written, then the token is read back
nextStorageCall(key, data) ==
    IF key = "userToken" /\ data.email # "" THEN "userEmail"
    ELSE IF key \in {"userToken", "userEmail"} /\ data.phone # "" THEN "userPhone"
    ELSE "verify"

\* the catch block sets the new token before it rethrows
signInCatchKeepsToken(a, key) ==
    [a EXCEPT !.pc = "done", !.failed = key, !.thrown = TRUE, !.token = a.data.token]

\* a storage call of signIn rejected: the catch block logs and rethrows
\* (auth.tsx:89-92)
signInCatch(a, key) ==
    [a EXCEPT !.pc = "done", !.failed = key, !.thrown = TRUE]

InitAuth ==
    /\ ExtractIdle
    /\ ClientIdle
    /\ home = NoHome /\ service = NoService /\ tasks = <<>>
    /\ \/ auth = NoAuth /\ store = EmptyStore
       \/ /\ auth = [NoAuth EXCEPT !.token = EarlierSession.token,
                                   !.userData = userDataOf(EarlierSession)]
          /\ store = storeOf(EarlierSession)

\* signIn(data) up to its first await: storage.setItem('userToken', ...) is called
\* (auth.tsx:66-69)
SignInCall ==
    \E data \in SignInInputs :
        /\ auth.pc = "idle"
        /\ auth' = [auth EXCEPT !.pc = "userToken", !.data = data,
                                !.before = [token |-> auth.token,
                                            userData |-> auth.userData]]
        /\ UNCHANGED <<extractVars, clientVars, home, service, store, tasks>>

\* a storage.setItem of signIn resolves, and signIn goes on to its next storage call,
\* or rejects (auth.tsx:69-80, 89-92)
SignInWriteReturns ==
    \E ok \in BOOLEAN :
        /\ auth.pc \in {"userToken", "userEmail", "userPhone"}
        /\ IF ok
           THEN /\ store' = put(store, auth.pc, auth.data[IF auth.pc = "userToken"
                                                         THEN "token"
                                                         ELSE IF auth.pc = "userEmail"
                                                         THEN "email" ELSE "phone"])
                /\ auth' = [auth EXCEPT !.pc = nextStorageCall(auth.pc, auth.data)]
           ELSE /\ auth' = signInCatch(auth, auth.pc)
                /\ UNCHANGED store
        /\ UNCHANGED <<extractVars, clientVars, home, service, tasks>>

\* the storage.getItem that reads the token back resolves, and signIn sets token and
\* userData and returns, or rejects (auth.tsx:80-92)
SignInVerifyReturns ==
    \E ok \in BOOLEAN :
        /\ auth.pc = "verify"
        /\ auth' = IF ok
                   THEN [auth EXCEPT !.pc = "done", !.token = auth.data.token,
                                     !.userData = userDataOf(auth.data)]
                   ELSE signInCatch(auth, "verify")
        /\ UNCHANGED <<extractVars, clientVars, home, service, store, tasks>>

NextAuth ==
    \/ SignInCall
    \/ SignInWriteReturns
    \/ SignInVerifyReturns

SpecAuth == InitAuth /\ [][NextAuth]_vars

(***************************************************************************)
(* smsListenerService (part_002) as the home screen's effect drives it     *)
(* (index.tsx:230-259): when the card list changes, the effect's cleanup   *)
(* calls stopListening() without awaiting it and the effect then calls     *)
(* startListening(cards). The native module takes the two requests in the  *)
(* order they were made and settles each promise; the two continuations    *)
(* run in either order.                                                    *)
(***************************************************************************)
\* the service started by an earlier run of the effect
ListeningService ==
    [NoService EXCEPT !.isListening = TRUE, !.smsListener = TRUE, !.registered = TRUE]

\* stopListening after its await (part_002:100-108): the service's fields
afterStop(sv) == [sv EXCEPT !.smsListener = FALSE, !.isListening = FALSE]

\* startListening after its await (part_002:59-79): the service's fields; the
\* subscription is replaced and the flag set only when the service is not listening
afterStart(sv) ==
    IF ~sv.isListening THEN [sv EXCEPT !.smsListener = TRUE, !.isListening = TRUE]
    ELSE sv

\* what startListening returns after its await (part_002:76, 79)
startReturns(sv) == IF ~sv.isListening THEN "true" ELSE "false"

InitListen ==
    /\ ExtractIdle
    /\ ClientIdle
    /\ home = NoHome /\ store = EmptyStore /\ tasks = <<>> /\ auth = NoAuth
    /\ service \in {NoService, ListeningService,
                    [ListeningService EXCEPT !.cachedCards = <<CardHdfc>>]}

\* the card list changed: the cleanup calls stopListening() and the effect calls
\* startListening(cards), each up to its await of the native module
\* (index.tsx:230-259, part_002:44-56, 90-98)
EffectRuns ==
    \E cardList \in CardLists :
        /\ service.stop.pc = "idle" /\ service.start.pc = "idle"
        /\ cardList # service.cachedCards
        /\ service' = [service EXCEPT !.cachedCards = cardList,
                                      !.native = <<"unregister", "register">>,
                                      !.stop.pc = "waiting", !.start.pc = "waiting"]
        /\ UNCHANGED <<extractVars, clientVars, home, store, tasks, auth>>

\* the native module handles its oldest request and settles the promise
NativeHandles ==
    \E ok \in BOOLEAN :
        /\ service.native # <<>>
        /\ LET request == Head(service.native)
               settled == IF ok THEN "resolved" ELSE "rejected"
               handled == [service EXCEPT !.native = Tail(@),
                                          !.registered = IF ok THEN request = "register"
                                                         ELSE @]
           IN  service' = IF request = "unregister"
                          THEN [handled EXCEPT !.stop.pc = settled]
                          ELSE [handled EXCEPT !.start.pc = settled]
        /\ UNCHANGED <<extractVars, clientVars, home, store, tasks, auth>>

\* stopListening runs on after its await (part_002:98-112)
StopContinues ==
    /\ service.stop.pc \in {"resolved", "rejected"}
    /\ service' =
          IF service.stop.pc = "resolved"
          THEN [afterStop(service) EXCEPT !.stop = [pc |-> "returned", returned |-> "true",
                                                     error |-> FALSE]]
          ELSE [service EXCEPT !.stop = [pc |-> "returned", returned |-> "false",
                                         error |-> TRUE]]
    /\ UNCHANGED <<extractVars, clientVars, home, store, tasks, auth>>

\* startListening runs on after its await (part_002:56-83)
StartContinues ==
    /\ service.start.pc \in {"resolved", "rejected"}
    /\ service' =
          IF service.start.pc = "resolved"
          THEN [afterStart(service) EXCEPT !.start = [pc |-> "returned",
                                                      returned |-> startReturns(service),
                                                      error |-> FALSE]]
          ELSE [service EXCEPT !.start = [pc |-> "returned", returned |-> "false",
                                          error |-> TRUE]]
    /\ UNCHANGED <<extractVars, clientVars, home, store, tasks, auth>>

NextListen ==
    \/ EffectRuns
    \/ NativeHandles
    \/ StopContinues
    \/ StartContinues

SpecListen == InitListen /\ [][NextListen]_vars

(***************************************************************************)
(* The calendar, stated independently of MakeDate: the days from           *)
(* 1970-01-01 to the civil date y-m-d (m = 1..12); a day past the end of   *)
(* the month counts on into the following month.                           *)
(***************************************************************************)
CivilDays(y, m, d) ==
    LET yy  == IF m <= 2 THEN y - 1 ELSE y
        era == yy \div 400
        yoe == yy - era * 400
        mp  == IF m > 2 THEN m - 3 ELSE m + 9
        doy == ((153 * mp + 2) \div 5) + d - 1
        doe == yoe * 365 + (yoe \div 4) - (yoe \div 100) + doy
    IN  era * 146097 + doe - 719468

\* local midnight of the civil date, in the clock's unit
CivilMidnight(y, m, d) == CivilDays(y, m, d) * 86400

\* the <<year, month>> after <<y, m>>, m = 1..12
MonthAfter(ym) == IF ym[2] = 12 THEN <<ym[1] + 1, 1>> ELSE <<ym[1], ym[2] + 1>>

\* the number of days of month ym
MonthLength(ym) ==
    CivilDays(MonthAfter(ym)[1], MonthAfter(ym)[2], 1) - CivilDays(ym[1], ym[2], 1)

\* the month that day d of month ym really falls in (d <= 31 overflows at most once)
MonthOfDay(ym, d) == IF d > MonthLength(ym) THEN MonthAfter(ym) ELSE ym

\* the reference moment: its <<year, month 1..12>>, its day of the month, its midnight
RefMonth == <<today.year, today.month + 1>>
RefDay == today.date
RefMidnight == CivilMidnight(today.year, today.month + 1, today.date)
RefTime == RefMidnight + today.secs

\* n is the ceiling of secs / one day
IsCeilingDays(n, secs) == (n - 1) * 86400 < secs /\ secs <= n * 86400

\* n is an integer nearest to secs / one day
IsNearestDays(n, secs) == 2 * (n * 86400 - secs) <= 86400 /\ 2 * (secs - n * 86400) <= 86400

\* the day argument of the last calculator call
CalcBillDay == parseInt(calc.billDate)
CalcDueDay == parseInt(calc.dueDate)

\* C3's next bill date: billDay in the reference month, rolled when billDay <= reference day
C3BillMonth == IF CalcBillDay <= RefDay THEN MonthAfter(RefMonth) ELSE RefMonth

\* C3's due date D, as local midnight
C3DueMidnight ==
    LET billMonth == MonthOfDay(C3BillMonth, CalcBillDay)
        dueMonth  == IF CalcDueDay > CalcBillDay THEN billMonth ELSE MonthAfter(billMonth)
    IN  CivilMidnight(dueMonth[1], dueMonth[2], CalcDueDay)

\* C3: creditPeriodDays is the round-to-nearest day difference between the reference
\* moment and the due date D: billDay rolls to the following month exactly when
\* billDay <= the reference day of the month, and D is dueDay in the next bill
\* date's month when dueDay > billDay, in the month after it otherwise.
C3_CreditPeriodDays ==
    calc.op = "creditDays" =>
        /\ calc.nextBillDate = CivilMidnight(C3BillMonth[1], C3BillMonth[2], CalcBillDay)
        /\ calc.dueDateAfterBill = C3DueMidnight
        /\ IsNearestDays(calc.days, C3DueMidnight - RefTime)

\* a credit period computed with the bill day equal to the reference day (rolled) and
\* the due day before the bill day (month after), at a reference past midnight
C3_Witness ==
    /\ calc.op = "creditDays"
    /\ CalcBillDay = RefDay
    /\ CalcDueDay < CalcBillDay
    /\ today.secs > 0

\* C4: for a targetDay whose date in the reference month is strictly earlier than the
\* reference moment, daysRemaining is the ceiling of the day count to the same day of
\* the following month; after December comes January of the next year.
C4_DaysRemainingRolled ==
    (calc.op = "daysRemaining"
       /\ CivilMidnight(RefMonth[1], RefMonth[2], CalcBillDay) < RefTime) =>
        LET next == IF RefMonth[2] = 12 THEN <<RefMonth[1] + 1, 1>>
                    ELSE <<RefMonth[1], RefMonth[2] + 1>>
        IN  /\ calc.targetDate = CivilMidnight(next[1], next[2], CalcBillDay)
            /\ IsCeilingDays(calc.days, CivilMidnight(next[1], next[2], CalcBillDay) - RefTime)

\* a December reference whose target day has passed: the target is in January 2025
C4_Witness ==
    /\ calc.op = "daysRemaining"
    /\ RefMonth = <<2024, 12>>
    /\ CalcBillDay < RefDay
    /\ calc.targetDate = CivilMidnight(2025, 1, CalcBillDay)

C6_DaysRemainingSign ==
    calc.op = "daysRemaining" =>
        /\ calc.days >= 0
        /\ CalcBillDay = RefDay =>
             IF RefTime = RefMidnight
             THEN calc.days = 0
             ELSE calc.days > 0

\* the target day is today and the reference moment is exactly its midnight
C6_Witness ==
    /\ calc.op = "daysRemaining"
    /\ CalcBillDay = RefDay
    /\ RefTime = RefMidnight
    /\ calc.days = 0

\* C7: creditPeriodDays(1, 20) at the start of 2024-01-15: next bill 2024-02-01,
\* due date 2024-02-20, result 36.
C7_Example ==
    (calc.op = "creditDays" /\ RefTime = CivilMidnight(2024, 1, 15)
       /\ calc.billDate = <<"1">> /\ calc.dueDate = <<"2", "0">>) =>
        /\ calc.nextBillDate = CivilMidnight(2024, 2, 1)
        /\ calc.dueDateAfterBill = CivilMidnight(2024, 2, 20)
        /\ calc.days = 36

C7_Witness ==
    /\ calc.op = "creditDays" /\ RefTime = CivilMidnight(2024, 1, 15)
    /\ calc.billDate = <<"1">> /\ calc.dueDate = <<"2", "0">>

\* C8: creditPeriodDays(20, 5) at the start of 2024-01-10: next bill 2024-01-20,
\* due date 2024-02-05, result 26.
C8_Example ==
    (calc.op = "creditDays" /\ RefTime = CivilMidnight(2024, 1, 10)
       /\ calc.billDate = <<"2", "0">> /\ calc.dueDate = <<"5">>) =>
        /\ calc.nextBillDate = CivilMidnight(2024, 1, 20)
        /\ calc.dueDateAfterBill = CivilMidnight(2024, 2, 5)
        /\ calc.days = 26

C8_Witness ==
    /\ calc.op = "creditDays" /\ RefTime = CivilMidnight(2024, 1, 10)
    /\ calc.billDate = <<"2", "0">> /\ calc.dueDate = <<"5">>

(***************************************************************************)
(* Properties of the message extractor                                     *)
(***************************************************************************)
\* extractCardInfoFromSms has been called
Extracted == normalizedMsg # "unset"

\* the message as the patterns see it
NormalizedMessage == normalizedMsg

\* the digits of a text, read as one decimal number
DigitsOf(text) == DigitRun(SelectSeq(text, IsDigit), 0)

\* a written amount ends in a two-digit decimal part
HasDecimalPart(text) == Len(text) >= 3 /\ text[Len(text) - 2] = "."

\* the numeric value of a written amount such as 4,500.00 or 300, in hundredths
WrittenAmount(text) ==
    IF HasDecimalPart(text) THEN DigitsOf(text) ELSE 100 * DigitsOf(text)

\* the value of a date pattern's captured number accepted by validation
DayCaptured(m) == m.matched /\ DigitsOf(m.number) \in 1..31

\* the value of an amount pattern's captured number accepted by validation
AmountCaptured(m) == m.matched /\ WrittenAmount(m.number) > 0

\* the value of the first pattern, in list order, that matches with a valid day
FirstValidDay(patterns) ==
    LET ok == {k \in 1..Len(patterns) : DayCaptured(dayMatch(NormalizedMessage, patterns[k]))}
    IN  IF ok = {} THEN null
        ELSE DigitsOf(dayMatch(NormalizedMessage, patterns[Min(ok)]).number)

\* the value of the first amount pattern, in list order, that matches with a valid amount
FirstValidAmount ==
    LET ms == amountMatches(NormalizedMessage)
        ok == {k \in 1..Len(ms) : AmountCaptured(ms[k])}
    IN  IF ok = {} THEN null ELSE WrittenAmount(ms[Min(ok)].number)

\* C1: an amount written after "Rs." or "INR" with thousands separators and a
\* two-digit decimal part is returned in full, separators stripped; the statement
\* example yields foundInfo, bill day 15, amount 4500.00 and no due day.
C1_RsInrAmount ==
    Extracted =>
        /\ \A k \in {4, 5} :
             LET ms == amountMatches(NormalizedMessage)
             IN  (/\ ms[k].matched
                  /\ \A j \in 1..(k - 1) : ~ms[j].matched
                  /\ HasDecimalPart(ms[k].number)
                  /\ \E i \in 1..Len(ms[k].number) : ms[k].number[i] = ",")
                 => result.amount = WrittenAmount(ms[k].number)
        /\ message = MsgStatementExample =>
             result = [foundInfo |-> TRUE, billGenerationDate |-> 15,
                       billDueDate |-> null, amount |-> 450000]

\* C2: each field holds the value captured by the first pattern of its list that
\* matches the normalized message with a number that passes validation.
C2_FirstMatchWins ==
    Extracted =>
        /\ result.billGenerationDate = FirstValidDay(billDatePatterns)
        /\ result.billDueDate = FirstValidDay(dueDatePatterns)
        /\ result.amount = FirstValidAmount

\* the two date fields alone do follow the first valid match of their lists
DatesFirstMatchWins ==
    Extracted =>
        /\ result.billGenerationDate = FirstValidDay(billDatePatterns)
        /\ result.billDueDate = FirstValidDay(dueDatePatterns)

\* the complete number written where a date pattern captured its day
WrittenDay(m) == DigitRun(SubSeq(NormalizedMessage, m.numberAt, Len(NormalizedMessage)), 0)

\* d is the complete number some pattern of the list found after its key phrase
IsCompleteDay(d, patterns) ==
    \E k \in 1..Len(patterns) :
        LET m == dayMatch(NormalizedMessage, patterns[k])
        IN  m.matched /\ d = WrittenDay(m)

\* a is the complete amount some amount pattern found
IsCompleteAmount(a) ==
    \E k \in 1..5 :
        LET m == amountMatches(NormalizedMessage)[k]
        IN  m.matched /\ a = WrittenAmount(m.number)

\* C9: no partial value is returned: a returned day is the complete number written
\* after the key phrase (not the first digits of a longer run), a returned amount
\* is the complete written amount (not its fractional part).
C9_NoPartialValue ==
    Extracted =>
        /\ result.billGenerationDate # null =>
             IsCompleteDay(result.billGenerationDate, billDatePatterns)
        /\ result.billDueDate # null =>
             IsCompleteDay(result.billDueDate, dueDatePatterns)
        /\ result.amount # null => IsCompleteAmount(result.amount)

\* C10: every field of the result is absent or validated: a day is in 1..31, an
\* amount is strictly positive.
C10_FieldsValidated ==
    Extracted =>
        /\ result.billGenerationDate = null \/ result.billGenerationDate \in 1..31
        /\ result.billDueDate = null \/ result.billDueDate \in 1..31
        /\ result.amount = null \/ result.amount > 0

\* a bill-date pattern captured a number that validation rejected and no other
\* pattern supplied one, while a due day and an amount were accepted
C10_Witness ==
    /\ Extracted
    /\ \E k \in 1..Len(billDatePatterns) :
         LET m == dayMatch(NormalizedMessage, billDatePatterns[k])
         IN  m.matched /\ parseInt(m.number) > 31
    /\ result.billGenerationDate = null
    /\ result.billDueDate \in 1..31
    /\ result.amount > 0

\* C11: the result has foundInfo = true exactly when at least one of the bill day,
\* the due day and the amount is present.
C11_FoundInfoIffAnyField ==
    Extracted =>
        (result.foundInfo <=> (\/ result.billGenerationDate # null
                               \/ result.billDueDate # null
                               \/ result.amount # null))

\* a result whose only field is the amount, reported as found
C11_Witness ==
    /\ Extracted
    /\ result.foundInfo
    /\ result.billGenerationDate = null
    /\ result.billDueDate = null
    /\ result.amount # null

\* no pattern of any field captured a number that passes validation
NothingValidCaptured ==
    /\ \A k \in 1..Len(billDatePatterns) :
         ~DayCaptured(dayMatch(NormalizedMessage, billDatePatterns[k]))
    /\ \A k \in 1..Len(dueDatePatterns) :
         ~DayCaptured(dayMatch(NormalizedMessage, dueDatePatterns[k]))
    /\ ~AmountCaptured(amountPattern1(NormalizedMessage))
    /\ ~AmountCaptured(amountPattern2(NormalizedMessage))
    /\ ~AmountCaptured(amountPattern3(NormalizedMessage))
    /\ ~AmountCaptured(amountPattern4(NormalizedMessage))
    /\ ~AmountCaptured(amountPattern5(NormalizedMessage))

\* C12: when no pattern of any field matches, or every matched value fails
\* validation, the result has all three fields absent and foundInfo = false; the
\* message "Thank you for your payment" gives foundInfo = false.
C12_NothingFound ==
    Extracted =>
        /\ NothingValidCaptured => result = NoResult
        /\ message = MsgThankYouExample => result.foundInfo = FALSE

\* a bill-date pattern and a due-date pattern both matched, each with a number that
\* validation rejected, and nothing was returned
C12_Witness ==
    /\ Extracted
    /\ \E k \in 1..Len(billDatePatterns) :
         LET m == dayMatch(NormalizedMessage, billDatePatterns[k])
         IN  m.matched /\ DigitsOf(m.number) > 31
    /\ \E k \in 1..Len(dueDatePatterns) :
         LET m == dayMatch(NormalizedMessage, dueDatePatterns[k])
         IN  m.matched /\ DigitsOf(m.number) > 31
    /\ NothingValidCaptured
    /\ result = NoResult

\* the due-date phrases and the bill-date phrases
DuePhrases ==
    {<<"d", "u", "e", " ", "d", "a", "t", "e">>, <<"d", "u", "e", " ", "o", "n">>,
     <<"p", "a", "y", " ", "b", "y">>, <<"p", "a", "y", "m", "e", "n", "t", " ", "d", "u", "e">>}

BillPhrases == {key.lit : key \in UNION {billDatePatterns[k] : k \in 1..Len(billDatePatterns)}}

\* the complete numbers written first after an occurrence of one of the phrases
FirstNumbersAfter(phrases) ==
    LET s == NormalizedMessage
    IN  {DigitRun(SubSeq(s, Min(digitsFrom(s, h[1] + Len(h[2]))), Len(s)), 0) :
            h \in {g \in (1..Len(s)) \X phrases :
                      /\ matchesAt(s, g[1], g[2])
                      /\ digitsFrom(s, g[1] + Len(g[2])) # {}}}

\* the message has no bill-date phrase and no amount
OnlyDuePhrases ==
    /\ \A lit \in BillPhrases, i \in 1..Len(NormalizedMessage) :
         ~matchesAt(NormalizedMessage, i, lit)
    /\ \A k \in 1..5 : ~amountMatches(NormalizedMessage)[k].matched

\* C13: for a message with a due-date phrase ("due date", "due on", "pay by",
\* "payment due") whose first following number is a day N in 1..31, with no
\* bill-date phrase and no amount, the result is foundInfo = true, due day N and
\* no other field; "payment due on 5th for card ending 1234" gives due day 5.
C13_DueDayOnly ==
    Extracted =>
        /\ \A N \in 1..31 :
             (OnlyDuePhrases /\ FirstNumbersAfter(DuePhrases) \cap (1..31) = {N}) =>
                 result = [foundInfo |-> TRUE, billGenerationDate |-> null,
                           billDueDate |-> N, amount |-> null]
        /\ message = MsgPaymentDueExample =>
             result = [foundInfo |-> TRUE, billGenerationDate |-> null,
                       billDueDate |-> 5, amount |-> null]

\* the example message of C13 alone does give due day 5 and nothing else
C13_ExampleHolds ==
    (Extracted /\ message = MsgPaymentDueExample) =>
        result = [foundInfo |-> TRUE, billGenerationDate |-> null,
                  billDueDate |-> 5, amount |-> null]

(***************************************************************************)
(* Properties of repeated extractor calls                                  *)
(***************************************************************************)
\* C14: two calls of extractCardInfoFromSms with the same message and card return
\* identical results, whatever calls were made in between: no state survives a call.
C14_SameCallSameResult ==
    \A i \in 1..Len(calls), j \in 1..Len(calls) :
        (calls[i].message = calls[j].message /\ calls[i].card = calls[j].card) =>
            calls[i].result = calls[j].result

\* the first and the third call have the same message and card, with a call in
\* between that found fields the other two did not
C14_Witness ==
    /\ Len(calls) = 3
    /\ calls[1].message = calls[3].message /\ calls[1].card = calls[3].card
    /\ calls[2].message # calls[1].message
    /\ calls[2].result.billGenerationDate # null
    /\ calls[1].result.billGenerationDate = null

(***************************************************************************)
(* Properties of the scan, the listener and the form                       *)
(***************************************************************************)
\* the positions of the log holding a call of the card API
ApiCalls == {i \in 1..Len(log) : log[i].op \in {"createCard", "updateCard"}}

\* the API calls made for a message (by the scan or the listener), not by the form
SmsApiCalls == {i \in ApiCalls : form.pc = "idle"}

\* C15: every billGenerationDate and billDueDate the client sends to the card API in
\* a create or update request (form, SMS scan, SMS listener) is an integer in 1..31.
C15_SentDatesInRange ==
    \A i \in ApiCalls :
        requestSent(log[i].ret) =>
            \A f \in DateFields \cap DOMAIN log[i].data : log[i].data[f] \in 1..31

\* a create request went out for a form whose day fields were "31" and "7a"
C15_Witness ==
    \E i \in ApiCalls :
        /\ log[i].op = "createCard" /\ requestSent(log[i].ret)
        /\ log[i].data.billGenerationDate = 31 /\ log[i].data.billDueDate = 7

\* C16: whenever scanAndroidSms resolves with success = true and updatedCards = n,
\* cardApi.updateCard has completed successfully for each of the n cards in updates.
C16_ReportedUpdatesSucceeded ==
    (scan.pc = "done" /\ scan.result.success) =>
        \A key \in DOMAIN scan.result.updates :
            \E i \in ApiCalls : log[i].card = key /\ log[i].ret = "ok"

\* the scan has read the inbox
InboxRead == \E i \in 1..Len(log) : log[i].op = "SmsAndroid.list" /\ log[i].ret = "ok"

\* the messages of the inbox, in list order, that pass the bank filter, mention the
\* card's last four digits and yield foundInfo = true
Qualifying(card) ==
    {i \in 1..Len(scan.inbox) :
        /\ isBankSms(cards, scan.inbox[i])
        /\ includes(toLowerCase(scan.inbox[i].body), card.lastFourDigits)
        /\ extractions[toLowerCase(scan.inbox[i].body)].foundInfo}

\* C17: in one scan each card receives at most one update, taken from the first
\* message in list order that passes the bank filter, mentions the card's last four
\* digits and yields foundInfo = true; later messages never replace it, and
\* updatedCards equals the number of entries in updates.
C17_FirstMessageOnly ==
    InboxRead =>
        /\ \A k \in 1..Len(cards) :
             LET id == cards[k].lastFourDigits
                 first == extractions[toLowerCase(scan.inbox[Min(Qualifying(cards[k]))].body)]
             IN  IF Qualifying(cards[k]) = {} THEN id \notin DOMAIN scan.tally.cardUpdates
                 ELSE /\ id \in DOMAIN scan.tally.cardUpdates
                      /\ scan.tally.cardUpdates[id].billGenerationDate = first.billGenerationDate
                      /\ scan.tally.cardUpdates[id].billDueDate = first.billDueDate
                      /\ scan.tally.cardUpdates[id].amount = first.amount
        /\ scan.tally.updatedCards = Cardinality(DOMAIN scan.tally.cardUpdates)
        /\ \A i \in ApiCalls, j \in ApiCalls : log[i].card = log[j].card => i = j
        /\ (scan.pc = "done" /\ scan.result.success) =>
             scan.result.updatedCards = Cardinality(DOMAIN scan.result.updates)

\* a finished scan in which two messages qualified for the same card with different
\* due days
C17_Witness ==
    /\ InboxRead /\ scan.pc = "done" /\ scan.result.success
    /\ \E k \in 1..Len(cards) :
         \E i \in Qualifying(cards[k]), j \in Qualifying(cards[k]) :
            /\ i < j
            /\ extractions[toLowerCase(scan.inbox[i].body)].billDueDate
                 # extractions[toLowerCase(scan.inbox[j].body)].billDueDate

\* isSmsAvailable returned true and requestSmsPermission then returned granted, on
\* Android
ScanPermitted ==
    /\ scan.platform = "android"
    /\ Len(log) >= 2
    /\ log[1].op = "isSmsAvailable" /\ log[1].ret = "true"
    /\ log[2].op = "requestSmsPermission" /\ log[2].ret = "true"

\* C18: scanAndUpdateCards reads the inbox only on Android and only after
\* isSmsAvailable has returned true and requestSmsPermission has then returned
\* granted; in every other case it returns success = false without reading any
\* message or calling the card API.
C18_InboxReadOnlyWhenPermitted ==
    /\ \A i \in 1..Len(log) : log[i].op = "SmsAndroid.list" => (ScanPermitted /\ i = 3)
    /\ (scan.pc = "done" /\ ~ScanPermitted) =>
         /\ scan.result.success = FALSE
         /\ \A i \in 1..Len(log) : log[i].op \in {"isSmsAvailable", "requestSmsPermission"}

\* a scan on iOS whose permission dialog answered 'unknown' ended without success
C18_Witness ==
    /\ scan.pc = "done" /\ scan.platform = "ios"
    /\ Len(log) = 2 /\ log[2].ret = "unknown"
    /\ scan.result.success = FALSE

\* what the extractor found for the card of an API call made for a message
ExtractionBehind(i) ==
    IF scan.pc # "idle" THEN scan.tally.cardUpdates[log[i].card]
    ELSE extractions[listener.message]

\* C19: an update request built from an SMS (updateCardsWithApi, handleSmsReceived)
\* carries billGenerationDate and/or billDueDate only, never the amount or another
\* field, and none is made for a card whose extraction found neither date.
C19_SmsUpdateCarriesOnlyDates ==
    \A i \in SmsApiCalls :
        /\ log[i].op = "updateCard"
        /\ DOMAIN log[i].data \subseteq DateFields
        /\ DOMAIN log[i].data # {}
        /\ \A f \in DOMAIN log[i].data : log[i].data[f] = ExtractionBehind(i)[f]
        /\ \/ ExtractionBehind(i).billGenerationDate # null
           \/ ExtractionBehind(i).billDueDate # null

\* a scan updated one card from a message that also held an amount, and made no
\* call for another card whose message held an amount only
C19_Witness ==
    /\ scan.pc = "done"
    /\ \E i \in SmsApiCalls : ExtractionBehind(i).amount # null
    /\ \E key \in DOMAIN scan.tally.cardUpdates :
         /\ scan.tally.cardUpdates[key].amount # null
         /\ scan.tally.cardUpdates[key].billGenerationDate = null
         /\ scan.tally.cardUpdates[key].billDueDate = null
         /\ \A i \in SmsApiCalls : log[i].card # key

\* the positions of the log holding an emitted event
Events == {i \in 1..Len(log) : log[i].op = "emit"}

\* C20: handleSmsReceived emits 'CardUpdatedFromSMS' for a card only after
\* cardApi.updateCard for that card has resolved successfully; per received SMS at
\* most one card is updated and at most one event is emitted; when the update fails
\* no event is emitted and no error leaves the handler.
C20_EventOnlyAfterUpdate ==
    /\ \A i \in Events :
         /\ i > 1
         /\ log[i - 1].op = "updateCard" /\ log[i - 1].ret = "ok"
         /\ log[i - 1].card = log[i].card
    /\ listener.pc # "idle" =>
         /\ Cardinality({i \in ApiCalls : log[i].ret = "ok"}) <= 1
         /\ Cardinality(Events) <= 1
         /\ listener.settled # "rejected"
    /\ (listener.pc = "done" /\ \E i \in ApiCalls : log[i].ret # "ok") => Events = {}

\* the listener updated the first card a message mentions and emitted its event,
\* while the message also mentions a later card with a date to send
C20_Witness ==
    /\ listener.pc = "done" /\ listener.cardUpdated
    /\ Cardinality(Events) = 1
    /\ nextCardToUpdate(cards, listener.index + 1, listener.message) # 0

\* the update of the logged call i carries a date outside 1..31
DateOutOfRange(i) ==
    \E f \in DateFields \cap DOMAIN log[i].data : log[i].data[f] \notin 1..31

\* C21: cardApi.updateCard throws 'Invalid bill generation date' or 'Invalid due
\* date', and sends no network request, whenever the update carries a
\* billGenerationDate or billDueDate outside 1..31.
C21_OutOfRangeDateThrows ==
    \A i \in 1..Len(log) :
        (log[i].op = "updateCard" /\ DateOutOfRange(i)) =>
            /\ log[i].ret \in {"Invalid bill generation date", "Invalid due date"}
            /\ ~requestSent(log[i].ret)

\* the same for the dates the truthiness test of the validation does not skip: a
\* nonzero number outside 1..31 makes the call throw before anything is sent
C21_NonzeroOutOfRangeThrows ==
    \A i \in 1..Len(log) :
        (/\ log[i].op = "updateCard"
         /\ \E f \in DateFields \cap DOMAIN log[i].data :
               truthy(log[i].data[f]) /\ log[i].data[f] \notin 1..31) =>
            /\ log[i].ret \in {"Invalid bill generation date", "Invalid due date"}
            /\ ~requestSent(log[i].ret)

\* the positions of the log before i at which a press opened the delete dialog
OpenedBefore(i) ==
    {j \in 1..(i - 1) : log[j].op = "handleDelete" /\ log[j].data = "opened"}

\* the last of them
LastOpenedBefore(i) == CHOOSE j \in OpenedBefore(i) : \A k \in OpenedBefore(i) : k <= j

\* C22: on the home screen cardApi.deleteCard is called only after the confirmation
\* dialog was opened for a card while online and then confirmed, and only for the
\* card the dialog was most recently opened for; cancelling the dialog, or pressing
\* delete while offline, never leads to a delete call.
C22_DeleteOnlyAfterConfirm ==
    /\ \A i \in 1..Len(log) :
         log[i].op = "deleteCard" =>
            /\ OpenedBefore(i) # {}
            /\ log[LastOpenedBefore(i)].ret = "online"
            /\ log[LastOpenedBefore(i)].card = log[i].card
            /\ log[i - 1].op = "confirmDelete"
            /\ \A k \in (LastOpenedBefore(i) + 1)..(i - 1) : log[k].op # "cancelDelete"
    /\ \A j \in 1..Len(log) :
         (log[j].op = "handleDelete" /\ log[j].ret = "offline") => log[j].data = "ignored"

\* the dialog was opened for one card and cancelled, an offline press was ignored,
\* then the dialog was opened for the other card and confirmed: its delete was called
C22_Witness ==
    /\ Len(log) = 6
    /\ log[1].op = "handleDelete" /\ log[1].data = "opened"
    /\ log[2].op = "cancelDelete"
    /\ log[3].op = "handleDelete" /\ log[3].ret = "offline"
    /\ log[4].op = "handleDelete" /\ log[4].data = "opened" /\ log[4].card # log[1].card
    /\ log[6].op = "deleteCard" /\ log[6].card = log[4].card

RECURSIVE queueAfter(_)
\* the list the first n recorded calls leave behind: each addToQueue appends its
\* operation, each clearQueue empties the list
queueAfter(n) ==
    IF n = 0 THEN <<>>
    ELSE IF log[n].op = "addToQueue" THEN Append(queueAfter(n - 1), log[n].data)
    ELSE IF log[n].op = "clearQueue" THEN <<>>
    ELSE queueAfter(n - 1)

\* C23: with no overlapping calls and no storage failure, cardQueue behaves as an
\* append-only list: getQueue returns the operations added so far, in insertion
\* order, with the operation of the latest addToQueue appended, and the empty list
\* after clearQueue.
C23_QueueIsAppendOnlyList ==
    (\A i \in 1..Len(log) : log[i].ret = "alone") =>
        /\ \A i \in 1..Len(log) :
              log[i].op = "getQueue" => log[i].data = queueAfter(i - 1)
        /\ tasks = <<>> => storedQueue(store) = queueAfter(Len(log))

\* two operations were added one after the other and getQueue returned both in order
C23_Witness ==
    /\ Len(log) = 3
    /\ \A i \in 1..3 : log[i].ret = "alone"
    /\ log[1].op = "addToQueue" /\ log[2].op = "addToQueue"
    /\ log[3].op = "getQueue" /\ log[3].data = <<log[1].data, log[2].data>>

\* the queue was cleared after an addition and getQueue returned the empty list
C23_ClearedWitness ==
    /\ Len(log) = 3
    /\ \A i \in 1..3 : log[i].ret = "alone"
    /\ log[1].op = "addToQueue" /\ log[2].op = "clearQueue"
    /\ log[3].op = "getQueue" /\ log[3].data = <<>>

\* C26: if several addToQueue calls overlap, after all of them have completed the
\* stored queue contains every added operation: no update is lost.
C26_NoLostUpdate ==
    (/\ tasks = <<>>
     /\ \A i \in 1..Len(log) : log[i].op = "addToQueue" /\ log[i].ret # "failed") =>
        \A i \in 1..Len(log) :
            \E j \in 1..Len(storedQueue(store)) : storedQueue(store)[j] = log[i].data

\* C24: signIn writes the token to storage before it sets the in-memory token; if
\* any storage write fails, the in-memory token and userData are left unchanged and
\* the error is rethrown.
C24_StorageBeforeMemory ==
    /\ (auth.pc # "idle" /\ auth.token # auth.before.token) =>
          /\ "userToken" \in DOMAIN store
          /\ store["userToken"] = auth.data.token
          /\ auth.token = auth.data.token
    /\ auth.failed \in {"userToken", "userEmail", "userPhone"} =>
          /\ auth.token = auth.before.token
          /\ auth.userData = auth.before.userData
          /\ auth.thrown

\* signIn over an earlier session stored the new token and failed to store the
\* phone: it threw and the earlier token and userData are still in memory
C24_Witness ==
    /\ auth.pc = "done" /\ auth.failed = "userPhone" /\ auth.thrown
    /\ auth.before.token = EarlierSession.token
    /\ auth.token = EarlierSession.token
    /\ store["userToken"] = auth.data.token

\* signIn stored everything and set the new token and userData in memory
C24_SignedInWitness ==
    /\ auth.pc = "done" /\ ~auth.thrown
    /\ auth.token = auth.data.token /\ auth.token # auth.before.token
    /\ store["userToken"] = auth.token

\* stopListening() and the startListening(cards) called after it have both completed
\* without error
BothCompleted ==
    /\ service.stop.pc = "returned" /\ ~service.stop.error
    /\ service.start.pc = "returned" /\ ~service.start.error

\* C25: when stopListening() is invoked and, without awaiting it, startListening(cards)
\* is invoked, then under every interleaving of the two calls' await points, once
\* both have completed without error the service is listening: isListening is true,
\* the 'OnSMSReceived' subscription exists and the native receiver is registered.
C25_ListeningAfterRestart ==
    BothCompleted =>
        service.isListening /\ service.smsListener /\ service.registered

\* the months from the reference month to the month of the due date used by the last
\* creditPeriodDays call
C27MonthsAhead ==
    (getFullYear(calc.dueDateAfterBill) * 12 + getMonth(calc.dueDateAfterBill))
        - (today.year * 12 + today.month)

\* C27: for every billDay and dueDay in 1..31 and every reference moment, the due
\* date used by creditPeriodDays lies at most two calendar months after the reference
\* month, so the returned credit period never exceeds 62 days.
C27_DueWithinTwoMonths ==
    calc.op = "creditDays" => (C27MonthsAhead <= 2 /\ calc.days <= 62)

\* the same for the calls in which neither day overflows its month: billDay exists in
\* the month of the next bill and dueDay in the month the due date is taken in
C27_WithinTwoMonthsWithoutOverflow ==
    (/\ calc.op = "creditDays"
     /\ CalcBillDay <= MonthLength(C3BillMonth)
     /\ CalcDueDay <= MonthLength(IF CalcDueDay > CalcBillDay THEN C3BillMonth
                                  ELSE MonthAfter(C3BillMonth))) =>
        (C27MonthsAhead <= 2 /\ calc.days <= 62)

====
